---- MODULE Spec2Model ----
(***************************************************************************)
(* Remote HIP client connection manager (hip_client.c) and wire protocol   *)
(* helpers (hip_remote_protocol.h), with the socket and the peer as the    *)
(* environment.                                                            *)
(*                                                                         *)
(* Byte counts are kept as numbers: a frame is a 20-byte header followed   *)
(* by payload_length payload bytes.  The inbound stream of the current     *)
(* connection is described by the number of unread bytes and by the        *)
(* distance from the read position to the start of the newest frame.       *)
(***************************************************************************)
EXTENDS Integers, Naturals, Sequences, FiniteSets, TLC

(***************************************************************************)
(* Protocol constants (hip_remote_protocol.h, hip_remote_client.h)         *)
(***************************************************************************)
HIP_REMOTE_MAGIC == 1212764242            \* 0x48495052
HIP_REMOTE_VERSION == 256                 \* 0x0100
HIP_REMOTE_MAX_PAYLOAD_SIZE == 64 * 1024 * 1024
HIP_OP_INIT == 1
HIP_OP_SHUTDOWN == 2
HIP_OP_PING == 3
HIP_OP_MALLOC == 512                      \* 0x0200
HIP_OP_MALLOC_HOST == 514                 \* 0x0202
HIP_OP_MEMCPY == 528                      \* 0x0210
HIP_OP_MODULE_LOAD_DATA == 1280           \* 0x0500
SMI_OP_INIT == 2048
SMI_OP_GET_PROCESSOR_COUNT == 2050
SMI_STATUS_SUCCESS == 0
SMI_STATUS_INVALID_ARGS == 1
SMI_STATUS_IO_ERROR == 5
SMI_STATUS_API_FAILED == 6
SmiInitRequestSize == 8                   \* sizeof(SmiRemoteInitRequest)
SmiCountResponseSize == 8                 \* sizeof(SmiRemoteProcessorCountResponse)
HIP_REMOTE_FLAG_RESPONSE == 1             \* 1u << 0
HIP_REMOTE_FLAG_HAS_INLINE_DATA == 4      \* 1u << 2
HIP_INVALID_SOCKET == -1
hipSuccess == 0
hipErrorInvalidValue == 1
hipErrorOutOfMemory == 2
hipErrorNotInitialized == 3
hipErrorInvalidHandle == 400
hipErrorNotSupported == 801
g_default_device == 0                     \* the worker's -d option, default
MAX_TRACKED_FUNCTIONS == 1024
HIP_REMOTE_MAX_KERNEL_ARGS == 64
HeaderSize == 20                          \* sizeof(HipRemoteHeader), packed
ResponseHeaderSize == 4                   \* sizeof(HipRemoteResponseHeader)
ModuleLoadRequestSize == 8                \* sizeof(HipRemoteModuleLoadRequest)
ModuleLoadResponseSize == 12              \* sizeof(HipRemoteModuleLoadResponse)
LaunchKernelRequestSize == 48             \* sizeof(HipRemoteLaunchKernelRequest)
KernelArgSize == 8                        \* sizeof(HipRemoteKernelArg)
hipMemcpyHostToDevice == 1
hipMemcpyDeviceToHost == 2
hipMemcpyDeviceToDevice == 3
DrainChunk == 256                         \* sizeof(drain) in hip_remote_request

(***************************************************************************)
(* Bounds of the model                                                     *)
(***************************************************************************)
NumThreads == 2
MaxRequestId == 4
NumConns == 2                             \* connections made to the worker
MaxCalls == 2                             \* calls and frames of all peers
MaxApiCalls == 3                          \* API calls of the application
MaxLaunchCalls == 4                       \* lookups and launches
MaxLoadCalls == 2                         \* calls of hipModuleLoadData
MaxSmiCalls == 3                          \* calls into the metrics client
MaxOnceCalls == 3                         \* calls of one thread into the library
MaxHandlerCalls == 2                      \* requests handed to the handlers

Threads == 1..NumThreads
NoThread == 0

Min(a, b) == IF a < b THEN a ELSE b

(***************************************************************************)
(* Pure helpers of hip_remote_protocol.h                                   *)
(***************************************************************************)
\* hip_remote_init_header: fills every field, flags cleared.
hip_remote_init_header(op_code, request_id, payload_length) ==
    [magic |-> HIP_REMOTE_MAGIC,
     version |-> HIP_REMOTE_VERSION,
     op_code |-> op_code,
     request_id |-> request_id,
     payload_length |-> payload_length,
     flags |-> 0]

\* x >> 8 on an unsigned 16-bit value
Shr8(x) == x \div 256

\* A plausible slip: the length test forgotten or made against the wrong bound.
hip_remote_validate_header_nolen(header) ==
    IF header.magic # HIP_REMOTE_MAGIC THEN -1
    ELSE IF Shr8(header.version) # Shr8(HIP_REMOTE_VERSION) THEN -2
    ELSE 0

\* hip_remote_validate_header: 0 on success, negative code on failure.
hip_remote_validate_header(header) ==
    IF header.magic # HIP_REMOTE_MAGIC THEN -1
    ELSE IF Shr8(header.version) # Shr8(HIP_REMOTE_VERSION) THEN -2
    ELSE IF header.payload_length > HIP_REMOTE_MAX_PAYLOAD_SIZE THEN -3
    ELSE 0

(***************************************************************************)
(* State                                                                   *)
(***************************************************************************)
VARIABLES
    socket_fd,        \* g_client_state.socket_fd
    connected,        \* g_client_state.connected
    next_request_id,  \* g_client_state.next_request_id
    last_error,       \* g_client_state.last_error
    lock,             \* g_client_state.lock: the holding thread, or NoThread
    pc,               \* position of every thread in the entry point it runs
    call,             \* arguments and locals of the call every thread runs
    nOpen,            \* sockets the process holds open at the OS level
    linkUp,           \* the current socket still reaches the peer
    unread,           \* bytes the peer has sent that the client has not read
    toFrame,          \* bytes from the read position to the newest frame's
                      \* header; -1 once the client has read into that frame
    lastFrame,        \* the newest frame the peer has sent
    awaiting,         \* complete request frames the peer has not answered
    wireOwner,        \* thread whose exchange is in progress on the socket
    interleaved,      \* some thread did socket I/O inside another's exchange
    sentIds,          \* request ids of the frames sent on the newest connection
    hdr,              \* header under test  (header specification only)
    vres,             \* result of validating hdr (header specification only)
    \* the worker and its peers (worker specification only)
    g_running,        \* g_running of hip_worker_main.c
    wmain,            \* position of main: accept loop, handle_client, exit
    backlog,          \* connections made and not yet accepted
    fd,               \* per client_fd: handle_client's locals and its history
    net,              \* per connection: the peer, its stream to the worker
    \* the API entry points over one connection (API specification only)
    cli,              \* g_client_state as one calling thread leaves it
    runtime,          \* the runtime in the worker: current device, memory
    app,              \* the application: its last call and output variables
    \* function info tracking of hip_api_module.c (launch specification only)
    g_function_count, \* g_function_count
    g_function_info,  \* g_function_info, as far as it concerns Handles
    launch,           \* the last lookup or launch and what became of it
    \* hipModuleLoadData's size sniffing (image specification only)
    image,            \* the code object image handed to hipModuleLoadData
    load,             \* what hipModuleLoadData computed and uploaded
    \* one-time initialisation (initialisation specification only)
    g_init_once,      \* g_init_once: "init", the running thread, or "done"
    opc,              \* position of every thread around hip_call_once
    env_reads,        \* executions of init_from_environment so far
    \* the metrics client and one handler of the worker (their specifications)
    smi,              \* g_client of smi_client.c and its last call
    hnd               \* a request handed to a worker handler, and its outcome

vars == <<socket_fd, connected, next_request_id, last_error, lock, pc, call,
          nOpen, linkUp, unread, toFrame, lastFrame, awaiting, wireOwner,
          interleaved, sentIds, hdr, vres, g_running, wmain, backlog, fd,
          net, cli, runtime, app, g_function_count, g_function_info, launch,
          image, load, g_init_once, opc, env_reads, smi, hnd>>

workerVars == <<g_running, wmain, backlog, fd, net>>
headerVars == <<hdr, vres>>
remoteVars == <<cli, runtime, app>>
launchVars == <<g_function_count, g_function_info, launch>>
imageVars == <<image, load>>
onceVars == <<g_init_once, opc, env_reads>>
peerVars == <<smi, hnd>>
apiVars == <<remoteVars, launchVars, imageVars, onceVars, peerVars>>

clientVars == <<socket_fd, connected, next_request_id, last_error, lock, pc,
                call, nOpen, linkUp, unread, toFrame, lastFrame, awaiting,
                wireOwner, interleaved, sentIds>>

(***************************************************************************)
(* Inputs                                                                  *)
(***************************************************************************)
RequestPrimitives == {"request", "with_data", "receive_data"}

\* request_size of the fixed request record (0: request == NULL,
\* 8: sizeof(HipRemoteFreeRequest))
RequestSizes == {0, 8}
\* the inline-data primitives always carry a fixed request record:
\* sizeof(HipRemoteMemcpyRequest)
MemcpyRequestSize == 36
\* (response, response_size): NULL, or a bare error-code record
\* (HipRemoteResponseHeader, HipRemoteMemcpyResponse)
ResponseBufs == {[ptr |-> FALSE, size |-> 0],
                 [ptr |-> TRUE, size |-> ResponseHeaderSize]}
\* data_size of the inline blob (0: no blob)
DataSizes == {0, 4}

\* payload lengths a peer may declare in a header that validates
PayloadLens == {0, 2, 4, 300}
ErrCodes == {hipSuccess, hipErrorOutOfMemory}

\* Response frames the peer may put on the wire: the header fields the
\* client looks at, and the error code at the start of the payload.
Frame(m, v, len, code) ==
    [magic |-> m, version |-> v, payload_length |-> len, code |-> code]
\* (a payload shorter than an error code carries none: one frame per length)
ValidFrames ==
    {f \in {Frame(HIP_REMOTE_MAGIC, HIP_REMOTE_VERSION, len, c) :
                len \in PayloadLens, c \in ErrCodes} :
        f.payload_length < ResponseHeaderSize => f.code = hipSuccess}
InvalidFrames ==
    {Frame(HIP_REMOTE_MAGIC + 1, HIP_REMOTE_VERSION, 4, hipSuccess),
     Frame(HIP_REMOTE_MAGIC, HIP_REMOTE_VERSION + 256, 4, hipSuccess),
     Frame(HIP_REMOTE_MAGIC, HIP_REMOTE_VERSION,
           HIP_REMOTE_MAX_PAYLOAD_SIZE + 1, hipSuccess)}
Frames == ValidFrames \cup InvalidFrames
NoFrame == Frame(0, 0, 0, 0)
\* Headers that stale bytes may happen to spell: one that fails validation
\* and ones that pass, with and without a payload.
StaleHeaders ==
    {f \in Frames : /\ f.code = hipSuccess
                    /\ f.version = HIP_REMOTE_VERSION
                    /\ f.payload_length \in {0, ResponseHeaderSize}}

\* The bytes a peer puts on the wire for a frame: the header, and the
\* payload it declares when the header is one a receiver accepts.
FrameBytes(f) ==
    IF hip_remote_validate_header(f) = 0
    THEN HeaderSize + f.payload_length ELSE HeaderSize

NoCall ==
    [kind |-> "none", request_size |-> 0, response |-> FALSE,
     response_size |-> 0, data |-> FALSE, data_size |-> 0,
     resp_header |-> NoFrame, code |-> 0, result |-> 0, ret |-> 0,
     extra |-> 0,
     \* history of the call, for stating properties
     respWritten |-> 0, dataWritten |-> 0, consumed |-> 0,
     aligned |-> FALSE, sentHdr |-> 0, hs |-> FALSE,
     hsAck |-> FALSE, startConnected |-> FALSE, startLink |-> FALSE,
     clean |-> TRUE, failedAt |-> "none"]

NewCall(kind, rq, rb, dp, ds) ==
    [NoCall EXCEPT !.kind = kind, !.request_size = rq, !.response = rb.ptr,
                   !.response_size = rb.size, !.data = dp, !.data_size = ds,
                   !.startConnected = connected, !.startLink = linkUp]

hdrIdle == hip_remote_init_header(0, 0, 0)

InitClient ==
    /\ socket_fd = HIP_INVALID_SOCKET
    /\ connected = FALSE
    /\ next_request_id = 1
    /\ last_error = hipSuccess
    /\ lock = NoThread
    /\ pc = [t \in Threads |-> "idle"]
    /\ call = [t \in Threads |-> NoCall]
    /\ nOpen = 0
    /\ linkUp = FALSE
    /\ unread = 0
    /\ toFrame = -1
    /\ lastFrame = NoFrame
    /\ awaiting = 0
    /\ wireOwner = NoThread
    /\ interleaved = FALSE
    /\ sentIds = <<>>

(***************************************************************************)
(* The worker (hip_worker_main.c) and its peers: initial state             *)
(***************************************************************************)
Conns == 1..NumConns
MallocRequestSize == 12                   \* sizeof(HipRemoteMallocRequest)
MallocResponseSize == 12                  \* sizeof(HipRemoteMallocResponse)
NoRuntime == -1                           \* the handler made no runtime call

\* An API call of the client library: its arguments and what became of it.
NoApi ==
    [fn |-> "none", outNull |-> FALSE, size |-> 0, sent |-> FALSE,
     reqId |-> 0, answered |-> FALSE, respId |-> 0, code |-> 0, ret |-> 0]

\* handle_client's view of one client_fd, with its history.
InitFd ==
    [st |-> "unused", wpc |-> "none", header |-> hdrIdle, avail |-> 0,
     reqsize |-> 0, alloc |-> 0, got |-> 0, why |-> "none", valid |-> 0,
     read |-> <<>>, answers |-> <<>>]

\* One peer: who it is, what it has sent that the worker has not read, how
\* many responses it has read, its request id counter, its API call.
InitNet ==
    [kind |-> "none", state |-> "new", inbox |-> <<>>, next_id |-> 1,
     ncalls |-> 0, rd |-> 0, maxSent |-> 0, pending |-> NoApi,
     last |-> NoApi]

\* The worker after listen(): about to accept, no connection yet.
InitWorker ==
    /\ g_running = TRUE
    /\ wmain = "accept"
    /\ backlog = <<>>
    /\ fd = [c \in Conns |-> InitFd]
    /\ net = [c \in Conns |-> InitNet]

(***************************************************************************)
(* The API entry points over one connection: initial state                 *)
(***************************************************************************)
Devices == {0, 1}
HostData == {1, 2}                        \* the host buffers copied from
NoData == [id |-> 0, len |-> 0]           \* memory nothing was copied into

\* The application before its first call.
NoApp ==
    [fn |-> "none", ptrNull |-> FALSE, arg |-> 0, size |-> 0, ret |-> 0,
     frames |-> 0,
     connects |-> 0, out |-> "stale", dst |-> NoData, clean |-> TRUE,
     setDev |-> -1, ncalls |-> 0]

\* g_client_state is disconnected; main of the worker has selected
\* g_default_device before it listens.
InitRemote ==
    /\ cli = [connected |-> FALSE]
    /\ runtime = [device |-> g_default_device, mem |-> NoData]
    /\ app = NoApp

\* The function handles the application launches; 0 is the NULL handle.
Handles == {1, 2}

\* The application before its first lookup or launch; reported is the
\* num_args of the newest successful lookup of each handle.
NoLaunch ==
    [fn |-> "none", f |-> 0, params |-> [null |-> TRUE, n |-> 0],
     extra |-> "null", ret |-> 0, requested |-> FALSE, packed |-> 0,
     reported |-> [h \in Handles |-> 0], ncalls |-> 0]

\* g_function_info is empty.
InitLaunch ==
    /\ g_function_count = 0
    /\ g_function_info =
          [h \in Handles |-> [present |-> FALSE, num_args |-> 0]]
    /\ launch = NoLaunch

\* A 64-bit unsigned value as four 16-bit limbs, least significant first.
Limb == 65536
U64(n) == <<n % Limb, n \div Limb, 0, 0>>

\* No image has been handed to hipModuleLoadData yet.
NoImage ==
    [magic |-> "none", e_shoff |-> U64(0), e_shentsize |-> 0, e_shnum |-> 0,
     num_bundles |-> 0, entries |-> <<>>]

NoLoad ==
    [ret |-> hipSuccess, null |-> FALSE, approx_size |-> U64(0),
     uploaded |-> 0, data_size |-> 0, payload_length |-> 0,
     sent |-> FALSE, module |-> "unset",
     ncalls |-> 0]

\* g_init_once = HIP_ONCE_INIT; the library is not loaded yet and no thread
\* has called into it.
InitOnce ==
    /\ g_init_once = "init"
    /\ opc = [loaded |-> FALSE, pc |-> [t \in Threads |-> "idle"],
              calls |-> [t \in Threads |-> 0]]
    /\ env_reads = 0

\* g_client of smi_client.c as initialised, and no call made yet.
NoSmi ==
    [socket_fd |-> HIP_INVALID_SOCKET, connected |-> FALSE,
     initialized |-> FALSE, next_request_id |-> 1,
     fn |-> "none", status |-> 0, peer |-> "none", available |-> FALSE,
     header |-> hip_remote_init_header(0, 0, 0), answered |-> FALSE,
     read |-> 0, ncalls |-> 0]

InitSmi == smi = NoSmi

\* No request has been handed to a handler yet.
NoHandled ==
    [op |-> "none", kind |-> 0, payload_size |-> 0, code |-> hipSuccess,
     read_end |-> 0, declared |-> U64(0), sent |-> U64(0), ncalls |-> 0]

InitApi ==
    /\ InitRemote
    /\ InitLaunch
    /\ image = NoImage
    /\ load = NoLoad
    /\ InitOnce
    /\ InitSmi
    /\ hnd = NoHandled

Init ==
    /\ InitClient
    /\ hdr = hdrIdle
    /\ vres = 0
    /\ InitWorker
    /\ InitApi

(***************************************************************************)
(* Platform primitives and the socket                                      *)
(***************************************************************************)
\* A lock that lets a second thread in while it is held.
hip_mutex_lock_nowait(t) == lock' = t

\* hip_mutex_lock: blocks until the mutex is free, then takes it.
hip_mutex_lock(t) == lock = NoThread /\ lock' = t

\* An unlock that leaves the mutex with its holder.
hip_mutex_unlock_kept(t) == lock' = lock

\* hip_mutex_unlock
hip_mutex_unlock(t) == lock' = NoThread

\* send_all succeeds as long as the socket still reaches the peer.
SendOk == linkUp

\* recv_all(n) succeeds when n bytes arrive before the socket times out.
RecvOk(n) == linkUp /\ unread >= n

\* Reading n bytes moves the read position.
RxUnread(n) == unread - n
RxToFrame(n) == IF toFrame >= n THEN toFrame - n ELSE -1

\* The header a 20-byte read returns: the newest frame's when the read
\* starts on its first byte, otherwise stale payload bytes, whose contents
\* the model does not track, so any header.
HeadersAt == IF toFrame = 0 THEN {lastFrame} ELSE StaleHeaders

\* The error_code field the caller finds at the start of its response
\* record: the frame's when at least four payload bytes of a frame read
\* from its first byte were stored there, otherwise indeterminate.
CodesRead(c, nbytes) ==
    IF c.aligned /\ nbytes >= ResponseHeaderSize
       /\ c.resp_header.payload_length >= ResponseHeaderSize
    THEN {c.resp_header.code} ELSE ErrCodes

\* Closing the socket discards its stream.
CloseWire ==
    /\ linkUp' = FALSE
    /\ unread' = 0
    /\ toFrame' = -1
    /\ lastFrame' = NoFrame
    /\ awaiting' = 0

\* A teardown that closes the socket but forgets the flag.
mark_disconnected_locked_keepflag ==
    /\ nOpen' = IF socket_fd # HIP_INVALID_SOCKET THEN nOpen - 1 ELSE nOpen
    /\ socket_fd' = HIP_INVALID_SOCKET
    /\ UNCHANGED connected
    /\ CloseWire

\* mark_disconnected_locked: close the socket if there is one, forget it,
\* clear the flag.
mark_disconnected_locked ==
    /\ nOpen' = IF socket_fd # HIP_INVALID_SOCKET THEN nOpen - 1 ELSE nOpen
    /\ socket_fd' = HIP_INVALID_SOCKET
    /\ connected' = FALSE
    /\ CloseWire

\* Bookkeeping of who is using the socket.
Io(t, owner) ==
    /\ interleaved' = (interleaved \/ wireOwner \notin {NoThread, t})
    /\ wireOwner' = owner

SetCall(t, c2, newpc) ==
    /\ call' = [call EXCEPT ![t] = c2]
    /\ pc' = [pc EXCEPT ![t] = newpc]

\* A socket operation failed: tear down and leave through the failure exit.
IoFailed(t, c2, newpc) ==
    /\ mark_disconnected_locked
    /\ Io(t, NoThread)
    /\ SetCall(t, c2, newpc)

\* A receive of n bytes succeeded.
Received(t, n, c2, newpc, owner) ==
    /\ unread' = RxUnread(n)
    /\ toFrame' = RxToFrame(n)
    /\ UNCHANGED <<socket_fd, connected, nOpen, linkUp, lastFrame, awaiting>>
    /\ Io(t, owner)
    /\ SetCall(t, c2, newpc)

\* An id handed out twice: the counter read without the increment.
NextRequestId_reused(id) == id

\* g_client_state.next_request_id++ : the value the counter holds afterwards.
NextRequestId(id) == id + 1

\* A receive that fails while the peer still owes the answer is the
\* environment's doing (peer too slow or gone), not the client's.
Blamed(c) == [c EXCEPT !.clean = c.clean /\ ~(linkUp /\ awaiting > 0)]

(***************************************************************************)
(* Entry: hip_call_once, then hip_mutex_lock                               *)
(***************************************************************************)
\* A thread calls one of the entry points and reaches hip_mutex_lock.
Enter(t) ==
    /\ pc[t] = "idle"
    /\ pc' = [pc EXCEPT ![t] = "lock"]
    /\ UNCHANGED <<socket_fd, connected, next_request_id, last_error, lock,
                   call, nOpen, linkUp, unread, toFrame, lastFrame, awaiting,
                   wireOwner, interleaved, hdr, vres, sentIds, workerVars,
                   apiVars>>

EntryPc(kind) ==
    CASE kind = "disconnect" -> "disc"
      [] kind = "is_connected" -> "isconn"
      [] OTHER -> "connect"

\* The argument lists the callers are drawn from.
CallShapes ==
    {NewCall(k, 0, [ptr |-> FALSE, size |-> 0], FALSE, 0) :
        k \in {"ensure", "disconnect", "is_connected"}}
    \cup {NewCall("request", rq, rb, FALSE, 0) :
            rq \in RequestSizes, rb \in ResponseBufs}
    \cup {NewCall("with_data", MemcpyRequestSize, rb, TRUE, ds) :
            rb \in ResponseBufs, ds \in DataSizes \ {0}}
    \cup {NewCall("receive_data", MemcpyRequestSize, rb, ds > 0, ds) :
            rb \in ResponseBufs, ds \in DataSizes}

\* hip_mutex_lock returns: the thread holds the connection.
Acquire(t) ==
    /\ pc[t] = "lock"
    /\ next_request_id + (IF connected THEN 1 ELSE 2) <= MaxRequestId
    /\ hip_mutex_lock(t)
    /\ \E c \in CallShapes : SetCall(t, c, EntryPc(c.kind))
    /\ UNCHANGED <<socket_fd, connected, next_request_id, last_error,
                   nOpen, linkUp, unread, toFrame, lastFrame, awaiting,
                   wireOwner, interleaved, hdr, vres, sentIds, workerVars,
                   apiVars>>

(***************************************************************************)
(* connect_to_worker_locked                                                *)
(***************************************************************************)
\* connect_to_worker_locked returned -1 to its caller.
ConnectFailedPc(c) == IF c.kind = "ensure" THEN "ens_unlock" ELSE "fail_unlock"
ConnectFailedCall(c, where) ==
    [c EXCEPT !.ret = IF c.kind = "ensure" THEN -1 ELSE hipErrorNotInitialized,
              !.failedAt = where]

\* connect_to_worker_locked returned 0 to its caller.
ConnectedPc(c) == IF c.kind = "ensure" THEN "ens_unlock" ELSE "send_hdr"

\* A connect that trusts the TCP connection and skips the handshake.
AfterConnectPc_nohandshake(c) == ConnectedPc(c)

\* After connect() succeeds the INIT handshake follows.
AfterConnectPc(c) == "hs_send"

ConnectOutcomes == {"gai_fail", "socket_fail", "connect_fail", "ok"}

\* A connect that dials whether or not there is a connection.
AlreadyConnected_never == FALSE

\* if (g_client_state.connected) return 0;
AlreadyConnected == connected

\* Early return when connected; otherwise getaddrinfo, socket, connect.
Connect(t) ==
    /\ pc[t] = "connect"
    /\ LET c == call[t] IN
       IF AlreadyConnected
       THEN /\ SetCall(t, [c EXCEPT !.ret = 0], ConnectedPc(c))
            /\ UNCHANGED <<socket_fd, connected, nOpen, linkUp, unread,
                           toFrame, lastFrame, awaiting, wireOwner,
                           interleaved, sentIds>>
       ELSE \E o \in ConnectOutcomes :
            CASE o = "gai_fail" ->
                 /\ SetCall(t, ConnectFailedCall([c EXCEPT !.clean = FALSE],
                                                 "connect"),
                            ConnectFailedPc(c))
                 /\ UNCHANGED <<socket_fd, connected, nOpen, linkUp, unread,
                                toFrame, lastFrame, awaiting, wireOwner,
                                interleaved, sentIds>>
              [] o = "socket_fail" ->
                 /\ socket_fd' = HIP_INVALID_SOCKET
                 /\ SetCall(t, ConnectFailedCall([c EXCEPT !.clean = FALSE],
                                                 "connect"),
                            ConnectFailedPc(c))
                 /\ UNCHANGED <<connected, nOpen, linkUp, unread,
                                toFrame, lastFrame, awaiting, wireOwner,
                                interleaved, sentIds>>
              [] o = "connect_fail" ->
                 \* the socket just created is closed again
                 /\ mark_disconnected_locked
                 /\ SetCall(t, ConnectFailedCall([c EXCEPT !.clean = FALSE],
                                                 "connect"),
                            ConnectFailedPc(c))
                 /\ UNCHANGED <<wireOwner, interleaved, sentIds>>
              [] o = "ok" ->
                 /\ socket_fd' = 3
                 /\ nOpen' = nOpen + 1
                 /\ connected' = TRUE
                 /\ linkUp' = TRUE
                 /\ unread' = 0
                 /\ toFrame' = -1
                 /\ lastFrame' = NoFrame
                 /\ awaiting' = 0
                 /\ sentIds' = <<>>
                 /\ SetCall(t, c, AfterConnectPc(c))
                 /\ UNCHANGED <<wireOwner, interleaved>>
    /\ UNCHANGED <<next_request_id, last_error, lock, hdr, vres, workerVars,
                   apiVars>>

\* The INIT response the worker's handle_init sends on success.
InitAck == Frame(HIP_REMOTE_MAGIC, HIP_REMOTE_VERSION, ResponseHeaderSize,
                 hipSuccess)

\* Send the INIT header, request id taken from the counter.
HsSend(t) ==
    /\ pc[t] = "hs_send"
    /\ next_request_id' = NextRequestId(next_request_id)
    /\ sentIds' = IF SendOk THEN Append(sentIds, next_request_id) ELSE sentIds
    /\ LET c == call[t] IN
       IF SendOk
       THEN /\ awaiting' = awaiting + 1
            /\ UNCHANGED <<socket_fd, connected, nOpen, linkUp, unread,
                           toFrame, lastFrame>>
            /\ Io(t, t)
            /\ SetCall(t, c, "hs_recv_hdr")
       ELSE IoFailed(t, ConnectFailedCall(c, "send init"), ConnectFailedPc(c))
    /\ UNCHANGED <<last_error, lock, hdr, vres, workerVars, apiVars>>

\* Receive and validate the INIT response header.
HsRecvHdr(t) ==
    /\ pc[t] = "hs_recv_hdr"
    /\ LET c == call[t] IN
       IF RecvOk(HeaderSize)
       THEN \E h \in HeadersAt :
            LET c2 == [c EXCEPT !.resp_header = h, !.aligned = (toFrame = 0)]
            IN
            IF hip_remote_validate_header(h) # 0
            THEN IoFailed(t, ConnectFailedCall(c2, "bad header"),
                          ConnectFailedPc(c))
            ELSE IF h.payload_length > 0
            THEN Received(t, HeaderSize, c2, "hs_recv_body", t)
            ELSE Received(t, HeaderSize, [c2 EXCEPT !.hs = TRUE, !.ret = 0],
                          ConnectedPc(c),
                          IF c.kind = "ensure" THEN NoThread ELSE t)
       ELSE IoFailed(t, ConnectFailedCall(Blamed(c), "recv init header"),
                     ConnectFailedPc(c))
    /\ UNCHANGED <<next_request_id, last_error, lock, hdr, vres,
                   sentIds, workerVars, apiVars>>

\* Receive the start of the INIT response body and test its error code.
\* With fewer than four payload bytes the code compared is indeterminate.
HsRecvBody(t) ==
    /\ pc[t] = "hs_recv_body"
    /\ LET c == call[t]
           to_read == Min(ResponseHeaderSize, c.resp_header.payload_length)
       IN
       IF RecvOk(to_read)
       THEN \E code \in CodesRead(c, to_read) :
            IF code # hipSuccess
            THEN IoFailed(t, ConnectFailedCall(c, "init error"),
                          ConnectFailedPc(c))
            ELSE Received(t, to_read,
                          [c EXCEPT !.hs = TRUE, !.ret = 0,
                                    !.hsAck = (to_read >= ResponseHeaderSize)],
                          ConnectedPc(c),
                          IF c.kind = "ensure" THEN NoThread ELSE t)
       ELSE IoFailed(t, ConnectFailedCall(Blamed(c), "recv init body"),
                     ConnectFailedPc(c))
    /\ UNCHANGED <<next_request_id, last_error, lock, hdr, vres,
                   sentIds, workerVars, apiVars>>

(***************************************************************************)
(* hip_remote_request, hip_remote_request_with_data,                       *)
(* hip_remote_request_receive_data                                         *)
(***************************************************************************)
\* What follows the fixed request record: the inline blob, or the response.
AfterRequestPc(c) ==
    IF c.kind = "with_data" /\ c.data /\ c.data_size > 0
    THEN "send_data" ELSE "recv_hdr"

\* What follows the request header.
AfterHeaderPc(c) ==
    IF c.request_size > 0 THEN "send_req" ELSE AfterRequestPc(c)

\* A send succeeded; the request is complete once nothing is left to send.
Sent(t, c2, newpc) ==
    /\ awaiting' = IF newpc = "recv_hdr" THEN awaiting + 1 ELSE awaiting
    /\ UNCHANGED <<socket_fd, connected, nOpen, linkUp, unread, toFrame,
                   lastFrame>>
    /\ Io(t, t)
    /\ SetCall(t, c2, newpc)

\* The failure exit of a request primitive: the error it will return.
Failing(c, err, where) == [c EXCEPT !.ret = err, !.failedAt = where]

\* A client that answers a transport failure by sending the request again.
SendFailedPc_retry == "connect"

\* Where a primitive goes when a send has failed: straight to its exit.
SendFailedPc == "fail_unlock"

\* Send the request header, request id taken from the counter.
SendHeader(t) ==
    /\ pc[t] = "send_hdr"
    /\ next_request_id' = NextRequestId(next_request_id)
    /\ sentIds' = IF SendOk THEN Append(sentIds, next_request_id) ELSE sentIds
    /\ LET c == call[t] IN
       IF SendOk
       THEN Sent(t, [c EXCEPT !.sentHdr = @ + 1], AfterHeaderPc(c))
       ELSE IoFailed(t, Failing(c, hipErrorNotInitialized, "send header"),
                     SendFailedPc)
    /\ UNCHANGED <<last_error, lock, hdr, vres, workerVars, apiVars>>

\* Send the fixed request record.
SendPayload(t) ==
    /\ pc[t] = "send_req"
    /\ LET c == call[t] IN
       IF SendOk
       THEN Sent(t, c, AfterRequestPc(c))
       ELSE IoFailed(t, Failing(c, hipErrorNotInitialized, "send payload"),
                     SendFailedPc)
    /\ UNCHANGED <<next_request_id, last_error, lock, hdr, vres,
                   sentIds, workerVars, apiVars>>

\* Send the inline blob (hip_remote_request_with_data only).
SendData(t) ==
    /\ pc[t] = "send_data"
    /\ LET c == call[t] IN
       IF SendOk
       THEN Sent(t, c, "recv_hdr")
       ELSE IoFailed(t, Failing(c, hipErrorNotInitialized, "send data"),
                     SendFailedPc)
    /\ UNCHANGED <<next_request_id, last_error, lock, hdr, vres,
                   sentIds, workerVars, apiVars>>

\* size_t remaining = payload_length - response_size, then
\* min(remaining, data_size).  The subtraction is unsigned: when
\* payload_length < response_size it wraps to 2^64 - (response_size -
\* payload_length), which exceeds every data_size, so the minimum is
\* data_size.
RemainingToRead(payload_length, response_size, data_size) ==
    IF payload_length >= response_size
    THEN Min(payload_length - response_size, data_size)
    ELSE data_size

\* After the response record of hip_remote_request_receive_data: read the
\* inline data only on success, and only when there is something to read.
DataStagePc(c, result) ==
    IF result = hipSuccess /\ c.data /\ c.data_size > 0
       /\ RemainingToRead(c.resp_header.payload_length, c.response_size,
                          c.data_size) > 0
    THEN "recv_data" ELSE "done"

\* The error a primitive returns for a response header that fails validation.
InvalidHeaderError_notinit == hipErrorNotInitialized
InvalidHeaderError == hipErrorInvalidValue

\* Receive and validate the response header.
RecvHeader(t) ==
    /\ pc[t] = "recv_hdr"
    /\ LET c == call[t] IN
       IF RecvOk(HeaderSize)
       THEN \E h \in HeadersAt :
            LET c2 == [c EXCEPT !.resp_header = h, !.aligned = (toFrame = 0),
                                !.consumed = HeaderSize,
                                !.result = hipSuccess]
            IN
            IF hip_remote_validate_header(h) # 0
            THEN IoFailed(t, Failing(c2, InvalidHeaderError, "invalid header"),
                          "fail_unlock")
            ELSE IF c.kind = "receive_data"
            THEN IF c.response /\ c.response_size > 0
                 THEN Received(t, HeaderSize, c2, "recv_resp", t)
                 ELSE LET npc == DataStagePc(c2, hipSuccess) IN
                      Received(t, HeaderSize, c2, npc,
                               IF npc = "done" THEN NoThread ELSE t)
            ELSE IF c.response /\ c.response_size > 0 /\ h.payload_length > 0
                 THEN Received(t, HeaderSize, c2, "recv_resp", t)
                 ELSE Received(t, HeaderSize, c2, "done", NoThread)
       ELSE IoFailed(t, Failing(Blamed(c), hipErrorNotInitialized,
                                "recv header"), "fail_unlock")
    /\ UNCHANGED <<next_request_id, last_error, lock, hdr, vres,
                   sentIds, workerVars, apiVars>>

\* A read sized by the peer's declaration alone.
ResponseToRead_unclamped(c) == c.resp_header.payload_length

\* Bytes read into the caller's response record: min(payload_length,
\* response_size) in hip_remote_request and hip_remote_request_with_data,
\* response_size in hip_remote_request_receive_data.
ResponseToRead(c) ==
    IF c.kind = "receive_data" THEN c.response_size
    ELSE Min(c.resp_header.payload_length, c.response_size)

\* Receive the response record and take its error code.
RecvResponse(t) ==
    /\ pc[t] = "recv_resp"
    /\ LET c == call[t]
           to_read == ResponseToRead(c)
       IN
       IF RecvOk(to_read)
       THEN \E code \in CodesRead(c, to_read) :
            LET c2 == [c EXCEPT !.respWritten = @ + to_read,
                                !.consumed = @ + to_read,
                                !.code = code]
            IN
            CASE c.kind = "request" ->
                 IF c.resp_header.payload_length > c.response_size
                 THEN Received(t, to_read,
                               [c2 EXCEPT !.extra =
                                   c.resp_header.payload_length
                                   - c.response_size],
                               "drain", t)
                 ELSE Received(t, to_read, [c2 EXCEPT !.result = code],
                               "done", NoThread)
              [] c.kind = "with_data" ->
                 Received(t, to_read, [c2 EXCEPT !.result = code],
                          "done", NoThread)
              [] OTHER ->
                 LET npc == DataStagePc(c2, code) IN
                 Received(t, to_read, [c2 EXCEPT !.result = code], npc,
                          IF npc = "done" THEN NoThread ELSE t)
       ELSE IoFailed(t, Failing(Blamed(c), hipErrorNotInitialized,
                                "recv payload"), "fail_unlock")
    /\ UNCHANGED <<next_request_id, last_error, lock, hdr, vres,
                   sentIds, workerVars, apiVars>>

\* One iteration of the drain loop of hip_remote_request.
Drain(t) ==
    /\ pc[t] = "drain"
    /\ LET c == call[t]
           chunk == Min(c.extra, DrainChunk)
       IN
       IF RecvOk(chunk)
       THEN LET c2 == [c EXCEPT !.extra = @ - chunk, !.consumed = @ + chunk]
            IN
            IF c2.extra > 0
            THEN Received(t, chunk, c2, "drain", t)
            ELSE Received(t, chunk, [c2 EXCEPT !.result = c.code],
                          "done", NoThread)
       ELSE IoFailed(t, Failing(Blamed(c), hipErrorNotInitialized, "drain"),
                     "fail_unlock")
    /\ UNCHANGED <<next_request_id, last_error, lock, hdr, vres,
                   sentIds, workerVars, apiVars>>

\* Receive the inline data of hip_remote_request_receive_data.
RecvData(t) ==
    /\ pc[t] = "recv_data"
    /\ LET c == call[t]
           to_read == RemainingToRead(c.resp_header.payload_length,
                                      c.response_size, c.data_size)
       IN
       IF RecvOk(to_read)
       THEN Received(t, to_read,
                     [c EXCEPT !.dataWritten = @ + to_read,
                               !.consumed = @ + to_read],
                     "done", NoThread)
       ELSE IoFailed(t, Failing(Blamed(c), hipErrorNotInitialized,
                                "recv data"), "fail_unlock")
    /\ UNCHANGED <<next_request_id, last_error, lock, hdr, vres,
                   sentIds, workerVars, apiVars>>

\* Success exit: record the result, unlock, return it.
Finish(t) ==
    /\ pc[t] = "done"
    /\ last_error' = call[t].result
    /\ hip_mutex_unlock(t)
    /\ SetCall(t, NoCall, "idle")
    /\ UNCHANGED <<socket_fd, connected, next_request_id, nOpen, linkUp,
                   unread, toFrame, lastFrame, awaiting, wireOwner,
                   interleaved, hdr, vres, sentIds, workerVars, apiVars>>

\* Failure exit, first half: unlock.
FailUnlock(t) ==
    /\ pc[t] = "fail_unlock"
    /\ hip_mutex_unlock(t)
    /\ SetCall(t, [NoCall EXCEPT !.ret = call[t].ret], "fail_ret")
    /\ UNCHANGED <<socket_fd, connected, next_request_id, last_error, nOpen,
                   linkUp, unread, toFrame, lastFrame, awaiting, wireOwner,
                   interleaved, hdr, vres, sentIds, workerVars, apiVars>>

\* Failure exit, second half: record the error (after the unlock), return.
FailReturn(t) ==
    /\ pc[t] = "fail_ret"
    /\ last_error' = call[t].ret
    /\ SetCall(t, NoCall, "idle")
    /\ UNCHANGED <<socket_fd, connected, next_request_id, lock, nOpen,
                   linkUp, unread, toFrame, lastFrame, awaiting, wireOwner,
                   interleaved, hdr, vres, sentIds, workerVars, apiVars>>

(***************************************************************************)
(* hip_remote_ensure_connected, hip_remote_disconnect,                     *)
(* hip_remote_is_connected                                                 *)
(***************************************************************************)
\* hip_remote_ensure_connected: unlock and return the connect result.
EnsureReturn(t) ==
    /\ pc[t] = "ens_unlock"
    /\ hip_mutex_unlock(t)
    /\ SetCall(t, NoCall, "idle")
    /\ UNCHANGED <<socket_fd, connected, next_request_id, last_error, nOpen,
                   linkUp, unread, toFrame, lastFrame, awaiting, wireOwner,
                   interleaved, hdr, vres, sentIds, workerVars, apiVars>>

\* hip_remote_disconnect: when connected, send SHUTDOWN (best effort) and
\* tear down; unlock.
Disconnect(t) ==
    /\ pc[t] = "disc"
    /\ IF connected
       THEN /\ next_request_id' = NextRequestId(next_request_id)
            /\ sentIds' = IF SendOk THEN Append(sentIds, next_request_id)
                          ELSE sentIds
            /\ mark_disconnected_locked
            /\ Io(t, NoThread)
       ELSE UNCHANGED <<next_request_id, socket_fd, connected, nOpen, linkUp,
                        unread, toFrame, lastFrame, awaiting, wireOwner,
                        interleaved, sentIds>>
    /\ hip_mutex_unlock(t)
    /\ SetCall(t, NoCall, "idle")
    /\ UNCHANGED <<last_error, hdr, vres, workerVars, apiVars>>

\* hip_remote_is_connected: read the flag under the lock.
IsConnected(t) ==
    /\ pc[t] = "isconn"
    /\ hip_mutex_unlock(t)
    /\ SetCall(t, NoCall, "idle")
    /\ UNCHANGED <<socket_fd, connected, next_request_id, last_error, nOpen,
                   linkUp, unread, toFrame, lastFrame, awaiting, wireOwner,
                   interleaved, hdr, vres, sentIds, workerVars, apiVars>>

(***************************************************************************)
(* Environment: the peer and the network                                   *)
(***************************************************************************)
\* A response as the worker frames it for this call: a header that
\* validates, a payload that starts with a whole error code and is as long
\* as the fixed response record the caller expects.
WorkerLike(f, c) ==
    /\ hip_remote_validate_header(f) = 0
    /\ f.payload_length >= ResponseHeaderSize
    /\ (c.kind = "receive_data" /\ c.response) =>
           f.payload_length >= c.response_size

\* The peer answers one complete request frame with a frame of its choice.
PeerSend(f) ==
    /\ awaiting > 0
    /\ linkUp
    /\ awaiting' = awaiting - 1
    /\ toFrame' = unread
    /\ unread' = unread + FrameBytes(f)
    /\ lastFrame' = f
    /\ IF lock # NoThread /\ pc[lock] = "hs_recv_hdr"
       THEN call' = [call EXCEPT ![lock].clean = @ /\ f = InitAck]
       ELSE IF lock # NoThread /\ pc[lock] = "recv_hdr"
       THEN call' = [call EXCEPT ![lock].clean = @ /\ WorkerLike(f, call[lock])]
       ELSE UNCHANGED call
    /\ UNCHANGED <<socket_fd, connected, next_request_id, last_error, lock,
                   pc, nOpen, linkUp, wireOwner, interleaved, hdr, vres,
                   sentIds, workerVars, apiVars>>

\* The connection is lost under the client: the peer closes or resets it,
\* or the descriptor is closed behind the client's back.
LinkDrop ==
    /\ connected
    /\ linkUp
    /\ linkUp' = FALSE
    /\ IF lock # NoThread
       THEN call' = [call EXCEPT ![lock].clean = FALSE]
       ELSE UNCHANGED call
    /\ UNCHANGED <<socket_fd, connected, next_request_id, last_error, lock,
                   pc, nOpen, unread, toFrame, lastFrame, awaiting,
                   wireOwner, interleaved, hdr, vres, sentIds, workerVars,
                   apiVars>>

Next ==
    \/ \E t \in Threads : Enter(t)
    \/ \E t \in Threads : Acquire(t)
    \/ \E t \in Threads : Connect(t)
    \/ \E t \in Threads : HsSend(t)
    \/ \E t \in Threads : HsRecvHdr(t)
    \/ \E t \in Threads : HsRecvBody(t)
    \/ \E t \in Threads : SendHeader(t)
    \/ \E t \in Threads : SendPayload(t)
    \/ \E t \in Threads : SendData(t)
    \/ \E t \in Threads : RecvHeader(t)
    \/ \E t \in Threads : RecvResponse(t)
    \/ \E t \in Threads : Drain(t)
    \/ \E t \in Threads : RecvData(t)
    \/ \E t \in Threads : Finish(t)
    \/ \E t \in Threads : FailUnlock(t)
    \/ \E t \in Threads : FailReturn(t)
    \/ \E t \in Threads : EnsureReturn(t)
    \/ \E t \in Threads : Disconnect(t)
    \/ \E t \in Threads : IsConnected(t)
    \/ \E f \in Frames : PeerSend(f)
    \/ LinkDrop

Spec == Init /\ [][Next]_vars

\* The steps of a call between hip_mutex_lock and its return.  The thread
\* is scheduled, and every socket operation completes or fails: the socket
\* carries the I/O timeout set in connect_to_worker_locked.
CallStep(t) ==
    \/ Connect(t) \/ HsSend(t) \/ HsRecvHdr(t) \/ HsRecvBody(t)
    \/ SendHeader(t) \/ SendPayload(t) \/ SendData(t)
    \/ RecvHeader(t) \/ RecvResponse(t) \/ Drain(t) \/ RecvData(t)
    \/ Finish(t) \/ FailUnlock(t) \/ FailReturn(t)
    \/ EnsureReturn(t) \/ Disconnect(t) \/ IsConnected(t)

FairCalls == \A t \in Threads : WF_vars(CallStep(t))

SpecLive == Spec /\ FairCalls

(***************************************************************************)
(* Header specification: headers built by hip_remote_init_header, altered  *)
(* field by field, and validated by hip_remote_validate_header             *)
(***************************************************************************)
HdrOps == {HIP_OP_INIT, HIP_OP_PING, HIP_OP_MEMCPY}
HdrIds == {0, 1, 2147483647}
HdrLens == {0, 1, 4, HIP_REMOTE_MAX_PAYLOAD_SIZE - 1,
            HIP_REMOTE_MAX_PAYLOAD_SIZE, HIP_REMOTE_MAX_PAYLOAD_SIZE + 1,
            2147483647}
HdrMagics == {HIP_REMOTE_MAGIC, HIP_REMOTE_MAGIC + 1, HIP_REMOTE_MAGIC - 1,
              0, 1380993352}
HdrVersions == {0, 255, 256, 257, 511, 512, 65535}

InitHeader ==
    /\ InitClient
    /\ \E op \in HdrOps, id \in HdrIds, len \in HdrLens :
          hdr = hip_remote_init_header(op, id, len)
    /\ vres = hip_remote_validate_header(hdr)
    /\ InitWorker
    /\ InitApi

\* A header arrives with its magic replaced, and is validated.
SetMagic(m) ==
    /\ hdr' = [hdr EXCEPT !.magic = m]
    /\ vres' = hip_remote_validate_header(hdr')
    /\ UNCHANGED <<clientVars, workerVars, apiVars>>

\* A header arrives with its version replaced, and is validated.
SetVersion(v) ==
    /\ hdr' = [hdr EXCEPT !.version = v]
    /\ vres' = hip_remote_validate_header(hdr')
    /\ UNCHANGED <<clientVars, workerVars, apiVars>>

\* A header arrives with its payload length replaced, and is validated.
SetPayloadLength(len) ==
    /\ hdr' = [hdr EXCEPT !.payload_length = len]
    /\ vres' = hip_remote_validate_header(hdr')
    /\ UNCHANGED <<clientVars, workerVars, apiVars>>

\* A fresh header is built and validated.
Rebuild(op, id, len) ==
    /\ hdr' = hip_remote_init_header(op, id, len)
    /\ vres' = hip_remote_validate_header(hdr')
    /\ UNCHANGED <<clientVars, workerVars, apiVars>>

NextHeader ==
    \/ \E m \in HdrMagics : SetMagic(m)
    \/ \E v \in HdrVersions : SetVersion(v)
    \/ \E len \in HdrLens : SetPayloadLength(len)
    \/ \E op \in HdrOps, id \in HdrIds, len \in HdrLens : Rebuild(op, id, len)

SpecHeader == InitHeader /\ [][NextHeader]_vars

(***************************************************************************)
(* The client library as a peer of the worker: connect and handshake       *)
(* (hip_client.c), API entry points (hip_api_memory.c)                     *)
(***************************************************************************)
\* A request frame on the wire: its header, the payload bytes that follow
\* it, and the size field of its request record.
ReqFrame(op_code, request_id, payload_length, flags, body, size) ==
    [h |-> [hip_remote_init_header(op_code, request_id, payload_length)
                EXCEPT !.flags = flags],
     body |-> body, size |-> size]

\* The peer puts a frame on its connection.
PutFrame(n, f) ==
    [n EXCEPT !.inbox = Append(n.inbox, f),
              !.next_id = NextRequestId(n.next_id),
              !.maxSent = IF f.h.payload_length > n.maxSent
                          THEN f.h.payload_length ELSE n.maxSent]

\* Calls made and frames sent so far, over all peers.
RECURSIVE CallsOf(_)
CallsOf(S) ==
    IF S = {} THEN 0
    ELSE LET c == CHOOSE x \in S : TRUE
         IN net[c].ncalls + CallsOf(S \ {c})
CallsLeft == CallsOf(Conns) < MaxCalls

\* Connections are made in the order of their numbers.
MayConnect(c) ==
    /\ net[c].state = "new"
    /\ \A b \in Conns : b < c => net[b].state # "new"

\* The next response on the connection that the peer has not read.
HasAnswer(c) == Len(fd[c].answers) > net[c].rd
NextAnswer(c) == fd[c].answers[net[c].rd + 1]

\* connect_to_worker_locked: connect() and the INIT request.
ClientConnect(c) ==
    /\ MayConnect(c)
    /\ CallsLeft
    /\ net' = [net EXCEPT ![c] =
                  PutFrame([net[c] EXCEPT !.kind = "client",
                                          !.state = "handshake",
                                          !.ncalls = @ + 1],
                           ReqFrame(HIP_OP_INIT, net[c].next_id, 0, 0, 0, 0))]
    /\ backlog' = Append(backlog, c)
    /\ fd' = [fd EXCEPT ![c].st = "queued"]
    /\ UNCHANGED <<g_running, wmain, clientVars, headerVars, apiVars>>

\* connect_to_worker_locked: the INIT response; anything but success
\* tears the connection down.
ClientHandshake(c) ==
    /\ net[c].state = "handshake"
    /\ HasAnswer(c)
    /\ net' = [net EXCEPT ![c].rd = @ + 1,
                          ![c].state = IF NextAnswer(c).code = hipSuccess
                                       THEN "ready" ELSE "closed"]
    /\ UNCHANGED <<g_running, wmain, backlog, fd, clientVars, headerVars,
                   apiVars>>

\* The argument lists the API callers are drawn from.
ApiSizes == {16, HIP_REMOTE_MAX_PAYLOAD_SIZE}
ApiCalls ==
    {[fn |-> f, outNull |-> b, size |-> 16] :
        f \in {"hipMalloc", "hipMallocHost"}, b \in BOOLEAN}
    \cup {[fn |-> "hipMemcpy", outNull |-> FALSE, size |-> z] : z \in ApiSizes}

\* An entry point that forgets to test its output pointer.
RequiresOutput_none(fn) == FALSE

\* Entry points that begin with `if (!ptr) return hipErrorInvalidValue`.
RequiresOutput(fn) == fn \in {"hipMalloc", "hipMallocHost"}

\* What an entry point decides before it calls a request primitive:
\* the error or success it returns at once, or "remote".
LocalResult(a) ==
    IF RequiresOutput(a.fn) /\ a.outNull THEN hipErrorInvalidValue
    ELSE IF a.size = 0 THEN hipSuccess
    ELSE NoRuntime

\* The frame an entry point hands to its request primitive: hipMalloc and
\* hipMallocHost through hip_remote_request, hipMemcpy (host to device)
\* through hip_remote_request_with_data.
ApiFrame(a, id) ==
    CASE a.fn = "hipMalloc" ->
         ReqFrame(HIP_OP_MALLOC, id, MallocRequestSize, 0,
                  MallocRequestSize, a.size)
      [] a.fn = "hipMallocHost" ->
         ReqFrame(HIP_OP_MALLOC_HOST, id, MallocRequestSize, 0,
                  MallocRequestSize, a.size)
      [] OTHER ->
         ReqFrame(HIP_OP_MEMCPY, id, MemcpyRequestSize + a.size,
                  HIP_REMOTE_FLAG_HAS_INLINE_DATA,
                  MemcpyRequestSize + a.size, a.size)

\* What the entry point returns for the result of its request primitive:
\* hipMallocHost keeps its local allocation and returns hipSuccess.
ApiResult(fn, err) == IF fn = "hipMallocHost" THEN hipSuccess ELSE err

\* A thread calls an API entry point: it returns at once on a local
\* decision, otherwise its request frame is sent.
ApiCall(c, a) ==
    /\ net[c].kind \in {"none", "client"}
    /\ net[c].state \in {"new", "ready"}
    /\ net[c].pending.fn = "none"
    /\ CallsLeft
    /\ LET n == [net[c] EXCEPT !.ncalls = @ + 1]
           r == [NoApi EXCEPT !.fn = a.fn, !.outNull = a.outNull,
                              !.size = a.size]
       IN
       IF LocalResult(a) # NoRuntime
       THEN net' = [net EXCEPT ![c] =
                       [n EXCEPT !.last = [r EXCEPT !.ret = LocalResult(a)]]]
       ELSE /\ net[c].state = "ready"
            /\ net' = [net EXCEPT ![c] =
                          PutFrame([n EXCEPT !.pending =
                                        [r EXCEPT !.sent = TRUE,
                                                  !.reqId = n.next_id]],
                                   ApiFrame(a, n.next_id))]
    /\ UNCHANGED <<g_running, wmain, backlog, fd, clientVars, headerVars,
                   apiVars>>

\* The request primitive reads the response; the entry point returns.
ApiReturn(c) ==
    /\ net[c].state = "ready"
    /\ net[c].pending.sent
    /\ HasAnswer(c)
    /\ LET a == NextAnswer(c) IN
       net' = [net EXCEPT ![c].rd = @ + 1,
                          ![c].pending = NoApi,
                          ![c].last =
                              [net[c].pending EXCEPT
                                  !.answered = TRUE,
                                  !.respId = a.h.request_id,
                                  !.code = a.code,
                                  !.ret = ApiResult(net[c].pending.fn,
                                                    a.code)]]
    /\ UNCHANGED <<g_running, wmain, backlog, fd, clientVars, headerVars,
                   apiVars>>

\* The receive fails (the worker closed the connection, or it is busy with
\* another one until the socket times out): the client tears the
\* connection down and the call in progress returns the transport error.
ApiFail(c) ==
    /\ net[c].kind = "client"
    /\ net[c].state = "handshake" \/ net[c].pending.sent
    /\ ~HasAnswer(c)
    /\ fd[c].st # "serving"
    /\ net' = [net EXCEPT ![c].state = "closed",
                          ![c].pending = NoApi,
                          ![c].last =
                              IF net[c].pending.sent
                              THEN [net[c].pending EXCEPT
                                       !.ret = ApiResult(net[c].pending.fn,
                                                   hipErrorNotInitialized)]
                              ELSE @]
    /\ UNCHANGED <<g_running, wmain, backlog, fd, clientVars, headerVars,
                   apiVars>>

\* hip_remote_disconnect: SHUTDOWN, best effort, then close.
ClientDisconnect(c) ==
    /\ net[c].kind = "client"
    /\ net[c].state = "ready"
    /\ net[c].pending.fn = "none"
    /\ net' = [net EXCEPT ![c] =
                  PutFrame([net[c] EXCEPT !.state = "closed"],
                           ReqFrame(HIP_OP_SHUTDOWN, net[c].next_id, 0, 0,
                                    0, 0))]
    /\ UNCHANGED <<g_running, wmain, backlog, fd, clientVars, headerVars,
                   apiVars>>

(***************************************************************************)
(* Any other peer of the worker                                            *)
(***************************************************************************)
\* Frames a peer may send: headers that fail validation, a request with no
\* handler, a request record that is too short, a SHUTDOWN.
RawFrames(id) ==
    {[ReqFrame(HIP_OP_MALLOC, id, 8, 0, 8, 0)
         EXCEPT !.h.magic = HIP_REMOTE_MAGIC + 1],
     [ReqFrame(HIP_OP_MALLOC, id, 8, 0, 8, 0)
         EXCEPT !.h.version = HIP_REMOTE_VERSION + 256],
     ReqFrame(HIP_OP_MALLOC, id, HIP_REMOTE_MAX_PAYLOAD_SIZE + 1, 0, 8, 0),
     ReqFrame(HIP_OP_PING, id, 0, 0, 0, 0),
     ReqFrame(HIP_OP_MALLOC, id, 4, 0, 4, 0),
     ReqFrame(HIP_OP_SHUTDOWN, id, 0, 0, 0, 0)}

\* A frame whose sender stops after part of the payload.
TruncatedFrame(id) ==
    ReqFrame(HIP_OP_MALLOC, id, MallocRequestSize, 0, 4, 16)

RawConnect(c) ==
    /\ MayConnect(c)
    /\ net[c].kind = "none"
    /\ net' = [net EXCEPT ![c].kind = "raw", ![c].state = "ready"]
    /\ backlog' = Append(backlog, c)
    /\ fd' = [fd EXCEPT ![c].st = "queued"]
    /\ UNCHANGED <<g_running, wmain, clientVars, headerVars, apiVars>>

RawSend(c, f) ==
    /\ net[c].kind = "raw"
    /\ net[c].state = "ready"
    /\ CallsLeft
    /\ net' = [net EXCEPT ![c] =
                  PutFrame([net[c] EXCEPT
                               !.ncalls = @ + 1,
                               !.state = IF f.body < f.h.payload_length
                                            /\ hip_remote_validate_header(f.h)
                                               = 0
                                         THEN "closed" ELSE @],
                           f)]
    /\ UNCHANGED <<g_running, wmain, backlog, fd, clientVars, headerVars,
                   apiVars>>

RawClose(c) ==
    /\ net[c].kind = "raw"
    /\ net[c].state = "ready"
    /\ net' = [net EXCEPT ![c].state = "closed"]
    /\ UNCHANGED <<g_running, wmain, backlog, fd, clientVars, headerVars,
                   apiVars>>

(***************************************************************************)
(* The worker: main's accept loop, handle_client, the handlers             *)
(***************************************************************************)
\* A main that hands the connection to a thread and accepts again.
AfterAcceptMain_spawn == "accept"

\* main calls handle_client and is inside it until it returns.
AfterAcceptMain == "handle_client"

\* accept() returns a connection; handle_client starts on it.
Accept ==
    /\ wmain = "accept"
    /\ g_running
    /\ backlog # <<>>
    /\ backlog' = Tail(backlog)
    /\ fd' = [fd EXCEPT ![Head(backlog)].st = "serving",
                        ![Head(backlog)].wpc = "loop"]
    /\ wmain' = AfterAcceptMain
    /\ UNCHANGED <<g_running, net, clientVars, headerVars, apiVars>>

\* handle_client leaves its loop for client_done.
Leave(f, why) == [f EXCEPT !.wpc = "client_done", !.why = why]

\* while (g_running)
WLoop(c) ==
    /\ fd[c].st = "serving"
    /\ fd[c].wpc = "loop"
    /\ fd' = [fd EXCEPT ![c] = IF g_running THEN [@ EXCEPT !.wpc = "recv_hdr"]
                               ELSE Leave(@, "stopped")]
    /\ UNCHANGED <<g_running, wmain, backlog, net, clientVars, headerVars,
                   apiVars>>

\* A worker that only looks at the magic.
HeaderRejected_magiconly(h) == h.magic # HIP_REMOTE_MAGIC

\* if (hip_remote_validate_header(&header) != 0) break;
HeaderRejected(h) == hip_remote_validate_header(h) # 0

\* Read a header (the receive fails when the peer has closed or nothing
\* arrives within the socket timeout), validate it, allocate the payload.
WRecvHeader(c) ==
    /\ fd[c].st = "serving"
    /\ fd[c].wpc = "recv_hdr"
    /\ IF net[c].inbox = <<>>
       THEN /\ fd' = [fd EXCEPT ![c] = Leave(@, "eof")]
            /\ UNCHANGED net
       ELSE LET f == Head(net[c].inbox)
                g == [fd[c] EXCEPT !.header = f.h, !.avail = f.body,
                                   !.reqsize = f.size, !.got = 0]
            IN
            /\ net' = [net EXCEPT ![c].inbox = Tail(@)]
            /\ IF HeaderRejected(f.h)
               THEN fd' = [fd EXCEPT ![c] = Leave(g, "invalid")]
               ELSE LET v == [g EXCEPT !.valid =
                                 IF f.body >= f.h.payload_length
                                 THEN @ + 1 ELSE @]
                    IN
                    IF f.h.payload_length > 0
                    THEN \E malloc_ok \in BOOLEAN :
                         fd' = [fd EXCEPT ![c] =
                                   IF malloc_ok
                                   THEN [v EXCEPT
                                            !.alloc = f.h.payload_length,
                                            !.wpc = "recv_payload"]
                                   ELSE Leave(v, "nomem")]
                    ELSE fd' = [fd EXCEPT ![c] =
                                   [v EXCEPT !.wpc = "dispatch",
                                             !.read = Append(@, f.h)]]
    /\ UNCHANGED <<g_running, wmain, backlog, clientVars, headerVars, apiVars>>

\* recv_all(client_fd, payload, header.payload_length)
WRecvPayload(c) ==
    /\ fd[c].st = "serving"
    /\ fd[c].wpc = "recv_payload"
    /\ fd' = [fd EXCEPT ![c] =
                 IF fd[c].avail >= fd[c].header.payload_length
                 THEN [@ EXCEPT !.got = fd[c].header.payload_length,
                                !.wpc = "dispatch",
                                !.read = Append(@, fd[c].header)]
                 ELSE Leave([@ EXCEPT !.alloc = 0], "payload")]
    /\ UNCHANGED <<g_running, wmain, backlog, net, clientVars, headerVars,
                   apiVars>>

\* A response that does not say it is one.
send_response_noflag(op_code, request_id, payload_size) ==
    hip_remote_init_header(op_code, request_id, payload_size)

\* send_response: the header of a response frame.
send_response(op_code, request_id, payload_size) ==
    [hip_remote_init_header(op_code, request_id, payload_size)
        EXCEPT !.flags = HIP_REMOTE_FLAG_RESPONSE]

\* A response frame: its header, the error code that starts its payload,
\* and the runtime result it was made from (NoRuntime: none).
Answer(op_code, request_id, payload_size, code, rt) ==
    [h |-> send_response(op_code, request_id, payload_size),
     code |-> code, rt |-> rt]

\* send_simple_response
Simple(op_code, request_id, code, rt) ==
    Answer(op_code, request_id, ResponseHeaderSize, code, rt)

\* The code the default branch of the dispatch answers with.
UnknownOpError_invalid == hipErrorInvalidValue
UnknownOpError == hipErrorNotSupported

KnownOps == {HIP_OP_INIT, HIP_OP_SHUTDOWN, HIP_OP_MALLOC, HIP_OP_MEMCPY}

\* A dispatch whose default branch only logs.
Responses_default_silent(h, payload_size, reqsize) ==
    CASE h.op_code = HIP_OP_INIT ->
         {<<Simple(HIP_OP_INIT, h.request_id, rt, rt)>> : rt \in ErrCodes}
      [] h.op_code = HIP_OP_SHUTDOWN ->
         {<<Simple(HIP_OP_SHUTDOWN, h.request_id, hipSuccess, NoRuntime)>>}
      [] OTHER -> {<<>>}

\* The response frames the handler of a request sends: handle_init,
\* handle_shutdown, handle_malloc, handle_memcpy (host to device, inline
\* data), and the default branch.
Responses(h, payload_size, reqsize) ==
    CASE h.op_code = HIP_OP_INIT ->
         {<<Simple(HIP_OP_INIT, h.request_id, rt, rt)>> : rt \in ErrCodes}
      [] h.op_code = HIP_OP_SHUTDOWN ->
         {<<Simple(HIP_OP_SHUTDOWN, h.request_id, hipSuccess, NoRuntime)>>}
      [] h.op_code = HIP_OP_MALLOC ->
         IF payload_size < MallocRequestSize
         THEN {<<Simple(HIP_OP_MALLOC, h.request_id, hipErrorInvalidValue,
                        NoRuntime)>>}
         ELSE {<<Answer(HIP_OP_MALLOC, h.request_id, MallocResponseSize,
                        rt, rt)>> : rt \in ErrCodes}
      [] h.op_code = HIP_OP_MEMCPY ->
         IF payload_size < MemcpyRequestSize
         THEN {<<Simple(HIP_OP_MEMCPY, h.request_id, hipErrorInvalidValue,
                        NoRuntime)>>}
         ELSE IF h.flags = HIP_REMOTE_FLAG_HAS_INLINE_DATA
                 /\ payload_size - MemcpyRequestSize >= reqsize
         THEN {<<Simple(HIP_OP_MEMCPY, h.request_id, rt, rt)>> :
                  rt \in ErrCodes}
         ELSE {<<Simple(HIP_OP_MEMCPY, h.request_id, hipErrorInvalidValue,
                        NoRuntime)>>}
      [] OTHER ->
         {<<Simple(h.op_code, h.request_id, UnknownOpError, NoRuntime)>>}

\* A worker that keeps reading after SHUTDOWN.
AfterDispatchPc_noshutdown(op_code) == "loop"

\* After the handler: SHUTDOWN jumps to client_done, everything else goes
\* round the loop.
AfterDispatchPc(op_code) ==
    IF op_code = HIP_OP_SHUTDOWN THEN "client_done" ELSE "loop"

\* The switch of handle_client: call the handler, free the payload.
WDispatch(c) ==
    /\ fd[c].st = "serving"
    /\ fd[c].wpc = "dispatch"
    /\ \E rs \in Responses(fd[c].header, fd[c].got, fd[c].reqsize) :
          fd' = [fd EXCEPT ![c] =
                    [@ EXCEPT !.answers = @ \o rs,
                              !.alloc = 0,
                              !.wpc = AfterDispatchPc(fd[c].header.op_code),
                              !.why = IF AfterDispatchPc(fd[c].header.op_code)
                                         = "client_done"
                                      THEN "shutdown" ELSE @]]
    /\ UNCHANGED <<g_running, wmain, backlog, net, clientVars, headerVars,
                   apiVars>>

\* client_done: close(client_fd); handle_client returns to main's loop.
WClose(c) ==
    /\ fd[c].st = "serving"
    /\ fd[c].wpc = "client_done"
    /\ fd' = [fd EXCEPT ![c].st = "closed", ![c].wpc = "none"]
    /\ wmain' = "accept"
    /\ UNCHANGED <<g_running, backlog, net, clientVars, headerVars, apiVars>>

\* signal_handler: SIGINT or SIGTERM.
Signal ==
    /\ g_running
    /\ g_running' = FALSE
    /\ UNCHANGED <<wmain, backlog, fd, net, clientVars, headerVars, apiVars>>

\* main leaves its accept loop.
WExit ==
    /\ wmain = "accept"
    /\ ~g_running
    /\ wmain' = "exit"
    /\ UNCHANGED <<g_running, backlog, fd, net, clientVars, headerVars,
                   apiVars>>

NextWorker ==
    \/ \E c \in Conns : ClientConnect(c)
    \/ \E c \in Conns : ClientHandshake(c)
    \/ \E c \in Conns, a \in ApiCalls : ApiCall(c, a)
    \/ \E c \in Conns : ApiReturn(c)
    \/ \E c \in Conns : ApiFail(c)
    \/ \E c \in Conns : ClientDisconnect(c)
    \/ \E c \in Conns : RawConnect(c)
    \/ \E c \in Conns : \E f \in RawFrames(net[c].next_id) : RawSend(c, f)
    \/ \E c \in Conns : RawSend(c, TruncatedFrame(net[c].next_id))
    \/ \E c \in Conns : RawClose(c)
    \/ Accept
    \/ \E c \in Conns : WLoop(c)
    \/ \E c \in Conns : WRecvHeader(c)
    \/ \E c \in Conns : WRecvPayload(c)
    \/ \E c \in Conns : WDispatch(c)
    \/ \E c \in Conns : WClose(c)
    \/ Signal
    \/ WExit

SpecWorker == Init /\ [][NextWorker]_vars

\* The worker keeps running: every receive returns within the socket
\* timeout, accept returns when a connection is waiting.
FairWorker ==
    /\ WF_vars(Accept)
    /\ \A c \in Conns :
          /\ WF_vars(WLoop(c))
          /\ WF_vars(WRecvHeader(c))
          /\ WF_vars(WRecvPayload(c))
          /\ WF_vars(WDispatch(c))
          /\ WF_vars(WClose(c))

SpecWorkerLive == SpecWorker /\ FairWorker

(***************************************************************************)
(* The API entry points over one connection: one calling thread, the       *)
(* request primitives, handle_client and the runtime behind it, each call  *)
(* taken as a whole                                                        *)
(***************************************************************************)
CopyLens == {0, 16, HIP_REMOTE_MAX_PAYLOAD_SIZE - MemcpyRequestSize,
             HIP_REMOTE_MAX_PAYLOAD_SIZE - MemcpyRequestSize + 1}
Faults == {"none", "lost_request", "lost_response"}
ApiCallsLeft == app.ncalls < MaxApiCalls

\* A request as an entry point hands it to its request primitive.
Req(op, payload_length, arg, size) ==
    [op |-> op, payload_length |-> payload_length, arg |-> arg,
     size |-> size]

\* A host-to-device copy that arrives with less data than it declares.
h2d_unchecked(r, q, code) ==
    [runtime |-> IF code = hipSuccess
                 THEN [r EXCEPT !.mem = [id |-> q.arg, len |-> q.size]]
                 ELSE r,
     code |-> code, payload |-> ResponseHeaderSize, value |-> 0,
     data |-> NoData]

\* handle_memcpy, host to device with inline data.
h2d(r, q, code) ==
    IF q.payload_length - MemcpyRequestSize >= q.size
    THEN h2d_unchecked(r, q, code)
    ELSE [runtime |-> r, code |-> hipErrorInvalidValue,
          payload |-> ResponseHeaderSize, value |-> 0, data |-> NoData]

\* A worker that sends the response record and no data.
d2h_nodata(r, q, code, malloc_ok) ==
    [runtime |-> r, code |-> IF malloc_ok THEN code ELSE hipErrorOutOfMemory,
     payload |-> ResponseHeaderSize, value |-> 0, data |-> NoData]

\* handle_memcpy, device to host: the data follows the response record.
d2h(r, q, code, malloc_ok) ==
    IF malloc_ok /\ code = hipSuccess
    THEN [runtime |-> r, code |-> hipSuccess,
          payload |-> ResponseHeaderSize + q.size, value |-> 0,
          data |-> [id |-> IF q.size <= r.mem.len THEN r.mem.id ELSE 0,
                    len |-> q.size]]
    ELSE d2h_nodata(r, q, code, malloc_ok)

\* handle_init: hipSetDevice(g_default_device).
handle_init(r, code) ==
    IF code = hipSuccess THEN [r EXCEPT !.device = g_default_device] ELSE r

\* The handler of a request: its runtime call and its response.
Handle(r, q, code, malloc_ok) ==
    CASE q.op = "set_device" ->
         [runtime |-> IF code = hipSuccess THEN [r EXCEPT !.device = q.arg]
                      ELSE r,
          code |-> code, payload |-> ResponseHeaderSize, value |-> 0,
          data |-> NoData]
      [] q.op = "get_device" ->
         [runtime |-> r, code |-> code, payload |-> 2 * ResponseHeaderSize,
          value |-> IF code = hipSuccess THEN r.device ELSE 0,
          data |-> NoData]
      [] q.op = "h2d" -> h2d(r, q, code)
      [] q.op = "d2h" -> d2h(r, q, code, malloc_ok)
      [] OTHER ->
         [runtime |-> r, code |-> code, payload |-> MallocResponseSize,
          value |-> 1, data |-> NoData]

\* A client that reads no inline data.
ToRead_none(remaining, data_size) == 0

\* hip_remote_request_receive_data: the inline data read into data_out.
ToRead(remaining, data_size) ==
    IF remaining < data_size THEN remaining ELSE data_size

\* What a call that ends without a response leaves behind.
Failed(r, ret, frames, connects, clean) ==
    [connected |-> FALSE, runtime |-> r, ret |-> ret, frames |-> frames,
     connects |-> connects, value |-> 0, data |-> NoData, clean |-> clean]

\* One call of a request primitive with the connection c and the runtime
\* r: connect_to_worker_locked with its INIT when disconnected, the
\* request frame, handle_client's validation and handler, the response.
\* clean: the worker was reached, no frame was lost, and the runtime and
\* malloc of the worker succeeded.
Round(c, r, q, conn_ok, init_code, fault, code, malloc_ok) ==
    LET dial == ~c.connected
        r1 == IF dial /\ conn_ok THEN handle_init(r, init_code) ELSE r
        up == c.connected \/ (conn_ok /\ init_code = hipSuccess)
        f0 == IF dial /\ conn_ok THEN 1 ELSE 0
        n0 == IF dial THEN 1 ELSE 0
        h == Handle(r1, q, code, malloc_ok)
        clean == /\ up
                 /\ fault = "none"
                 /\ code = hipSuccess
                 /\ malloc_ok
    IN  IF ~up THEN Failed(r1, hipErrorNotInitialized, f0, n0, clean)
        ELSE IF q.payload_length > HIP_REMOTE_MAX_PAYLOAD_SIZE
                \/ fault = "lost_request"
        THEN Failed(r1, hipErrorNotInitialized, f0 + 1, n0, clean)
        ELSE IF fault = "lost_response"
        THEN Failed(h.runtime, hipErrorNotInitialized, f0 + 1, n0, clean)
        ELSE IF h.payload > HIP_REMOTE_MAX_PAYLOAD_SIZE
        THEN Failed(h.runtime, hipErrorInvalidValue, f0 + 1, n0, clean)
        ELSE [connected |-> TRUE, runtime |-> h.runtime, ret |-> h.code,
              frames |-> f0 + 1, connects |-> n0, value |-> h.value,
              data |-> [h.data EXCEPT
                          !.len = ToRead(h.payload - ResponseHeaderSize,
                                         q.size)],
              clean |-> clean]

\* Every way a call of a request primitive can go.
Rounds(q) ==
    {Round(cli, runtime, q, conn_ok, init_code, fault, code, malloc_ok) :
        conn_ok \in BOOLEAN, init_code \in ErrCodes, fault \in Faults,
        code \in ErrCodes, malloc_ok \in BOOLEAN}

\* The application makes a call: its output variables hold what they held.
Entered(fn, ptrNull, arg, size) ==
    [app EXCEPT !.fn = fn, !.ptrNull = ptrNull, !.arg = arg, !.size = size,
                !.ret = 0, !.frames = 0, !.connects = 0, !.out = "stale",
                !.dst = NoData, !.clean = TRUE, !.ncalls = @ + 1]

\* The call returns without having called a request primitive.
Local(fn, ptrNull, arg, size, ret, out) ==
    /\ app' = [Entered(fn, ptrNull, arg, size) EXCEPT !.ret = ret,
                                                   !.out = out]
    /\ UNCHANGED <<cli, runtime>>

\* The call returns from its request primitive with outcome o.
Remote(fn, arg, size, o, out) ==
    /\ app' = [Entered(fn, FALSE, arg, size) EXCEPT
                  !.ret = o.ret, !.frames = o.frames,
                  !.connects = o.connects, !.out = out, !.dst = o.data,
                  !.clean = o.clean,
                  !.setDev = IF fn = "hipSetDevice" /\ o.ret = hipSuccess
                             THEN arg ELSE @]
    /\ cli' = [connected |-> o.connected]
    /\ runtime' = o.runtime

\* Entry points without the zero-length short cut.
ZeroLength_never(size) == FALSE

\* if (size == 0) of hipMalloc and hipMemcpy
ZeroLength(size) == size = 0

\* hipMalloc
hipMalloc(ptrNull, size) ==
    /\ ApiCallsLeft
    /\ IF ptrNull
       THEN Local("hipMalloc", ptrNull, 0, size, hipErrorInvalidValue,
                  "stale")
       ELSE IF ZeroLength(size)
       THEN Local("hipMalloc", ptrNull, 0, size, hipSuccess, "null")
       ELSE \E o \in Rounds(Req("malloc", MallocRequestSize, 0, size)) :
               Remote("hipMalloc", 0, size, o,
                      IF o.ret = hipSuccess THEN "value" ELSE "null")
    /\ UNCHANGED <<clientVars, headerVars, workerVars, peerVars, launchVars,
                   imageVars, onceVars>>

\* hipMemcpy from the host buffer src to the device
hipMemcpyH2D(src, size, ptrNull) ==
    /\ ApiCallsLeft
    /\ IF ZeroLength(size)
       THEN Local("hipMemcpyH2D", ptrNull, src, size, hipSuccess, "stale")
       ELSE IF ptrNull
       THEN Local("hipMemcpyH2D", ptrNull, src, size, hipErrorInvalidValue,
                  "stale")
       ELSE \E o \in Rounds(Req("h2d", MemcpyRequestSize + size, src,
                                size)) :
               Remote("hipMemcpyH2D", src, size, [o EXCEPT !.data = NoData],
                      "stale")
    /\ UNCHANGED <<clientVars, headerVars, workerVars, peerVars, launchVars,
                   imageVars, onceVars>>

\* hipMemcpy from the device to a host buffer
hipMemcpyD2H(size, ptrNull) ==
    /\ ApiCallsLeft
    /\ IF ZeroLength(size)
       THEN Local("hipMemcpyD2H", ptrNull, 0, size, hipSuccess, "stale")
       ELSE IF ptrNull
       THEN Local("hipMemcpyD2H", ptrNull, 0, size, hipErrorInvalidValue,
                  "stale")
       ELSE \E o \in Rounds(Req("d2h", MemcpyRequestSize, 0, size)) :
               Remote("hipMemcpyD2H", 0, size,
                      IF o.ret = hipSuccess THEN o
                      ELSE [o EXCEPT !.data = NoData],
                      "stale")
    /\ UNCHANGED <<clientVars, headerVars, workerVars, peerVars, launchVars,
                   imageVars, onceVars>>

\* hipSetDevice
hipSetDevice(deviceId) ==
    /\ ApiCallsLeft
    /\ \E o \in Rounds(Req("set_device", ResponseHeaderSize, deviceId, 0)) :
          Remote("hipSetDevice", deviceId, 0, o, "stale")
    /\ UNCHANGED <<clientVars, headerVars, workerVars, peerVars, launchVars,
                   imageVars, onceVars>>

\* hipGetDevice
hipGetDevice(ptrNull) ==
    /\ ApiCallsLeft
    /\ IF ptrNull
       THEN Local("hipGetDevice", ptrNull, 0, 0, hipErrorInvalidValue,
                  "stale")
       ELSE \E o \in Rounds(Req("get_device", 0, 0, 0)) :
               Remote("hipGetDevice", 0, 0, o,
                      IF o.ret = hipSuccess THEN o.value ELSE "stale")
    /\ UNCHANGED <<clientVars, headerVars, workerVars, peerVars, launchVars,
                   imageVars, onceVars>>

\* The entry points that hand back one handle or value and do nothing else.
OutputCalls == {"hipStreamCreate", "hipGetDeviceCount", "hipMemGetInfo",
                "hipModuleLoadData", "hipModuleGetFunction"}

\* What the entry point leaves in its output when its request failed:
\* hipStreamCreate stores NULL, the others do not touch it.
OnFailure(fn) == IF fn = "hipStreamCreate" THEN "null" ELSE "stale"

\* hipStreamCreate, hipGetDeviceCount, hipMemGetInfo, hipModuleLoadData,
\* hipModuleGetFunction
OutputCall(fn, ptrNull) ==
    /\ ApiCallsLeft
    /\ IF ptrNull
       THEN Local(fn, ptrNull, 0, 0, hipErrorInvalidValue, "stale")
       ELSE \E o \in Rounds(Req("other", MallocRequestSize, 0, 0)) :
               Remote(fn, 0, 0, o,
                      IF o.ret = hipSuccess THEN "value" ELSE OnFailure(fn))
    /\ UNCHANGED <<clientVars, headerVars, workerVars, peerVars, launchVars,
                   imageVars, onceVars>>

\* hip_remote_disconnect
hipRemoteDisconnect ==
    /\ cli.connected
    /\ cli' = [connected |-> FALSE]
    /\ UNCHANGED <<runtime, app>>
    /\ UNCHANGED <<clientVars, headerVars, workerVars, peerVars, launchVars,
                   imageVars, onceVars>>

NextApi ==
    \/ \E ptrNull \in BOOLEAN, size \in {0, 16} : hipMalloc(ptrNull, size)
    \/ \E src \in HostData, size \in CopyLens, ptrNull \in BOOLEAN :
          hipMemcpyH2D(src, size, ptrNull)
    \/ \E size \in CopyLens, ptrNull \in BOOLEAN : hipMemcpyD2H(size, ptrNull)
    \/ \E deviceId \in Devices : hipSetDevice(deviceId)
    \/ \E ptrNull \in BOOLEAN : hipGetDevice(ptrNull)
    \/ \E fn \in OutputCalls, ptrNull \in BOOLEAN : OutputCall(fn, ptrNull)
    \/ hipRemoteDisconnect

SpecApi == Init /\ [][NextApi]_vars

(***************************************************************************)
(* Function info tracking and kernel launch of hip_api_module.c            *)
(***************************************************************************)
ArgCounts == {0, 2}                       \* num_args a worker reports
ParamArrays ==                            \* kernelParams: NULL, or an array
    {[null |-> TRUE, n |-> 0]}            \* with n leading non-NULL entries
        \cup {[null |-> FALSE, n |-> k] : k \in {0, 2, 3, 64, 70}}
ExtraArrays == {"null", "empty", "given"} \* extra: NULL, extra[0] NULL, else
LaunchCallsLeft == launch.ncalls < MaxLaunchCalls

\* A table that has room for every function.
store_function_info_unbounded(count, info, function, num_args) ==
    [count |-> IF info[function].present THEN count ELSE count + 1,
     info |-> [info EXCEPT ![function] =
                  [present |-> TRUE, num_args |-> num_args]]]

\* store_function_info: g_function_count and g_function_info afterwards.
store_function_info(count, info, function, num_args) ==
    IF info[function].present \/ count < MAX_TRACKED_FUNCTIONS
    THEN store_function_info_unbounded(count, info, function, num_args)
    ELSE [count |-> count, info |-> info]

\* get_function_num_args
get_function_num_args(function) ==
    IF function \in Handles /\ g_function_info[function].present
    THEN g_function_info[function].num_args
    ELSE 0

\* The NULL-terminated count of kernelParams, stopping at the maximum.
CountParams(params) == Min(params.n, HIP_REMOTE_MAX_KERNEL_ARGS)

\* A launch that ignores extra.
ExtraRejected_never(extra) == FALSE

\* if (extra && extra[0])
ExtraRejected(extra) == extra = "given"

\* The application makes a call.
Launched(fn, f, params, extra, ret, requested, packed) ==
    [launch EXCEPT !.fn = fn, !.f = f, !.params = params, !.extra = extra,
                   !.ret = ret, !.requested = requested, !.packed = packed,
                   !.ncalls = @ + 1]

\* hipModuleGetFunction returns the handle function; the worker reported
\* num_args, or the request failed with err.
hipModuleGetFunction(function, num_args, err) ==
    /\ LaunchCallsLeft
    /\ LET s == store_function_info(g_function_count, g_function_info,
                                    function, num_args)
       IN  IF err = hipSuccess
           THEN /\ g_function_count' = s.count
                /\ g_function_info' = s.info
                /\ launch' = [Launched("hipModuleGetFunction", function,
                                       launch.params, "null", err, TRUE, 0)
                                 EXCEPT !.reported[function] = num_args]
           ELSE /\ launch' = Launched("hipModuleGetFunction", function,
                                      launch.params, "null", err, TRUE, 0)
                /\ UNCHANGED <<g_function_count, g_function_info>>
    /\ UNCHANGED <<clientVars, headerVars, workerVars, peerVars, remoteVars,
                   imageVars, onceVars>>

\* k successful lookups of functions other than those in Handles, each
\* with a handle not seen before.
OtherFunctions(k) ==
    /\ LaunchCallsLeft
    /\ g_function_count' = Min(g_function_count + k, MAX_TRACKED_FUNCTIONS)
    /\ launch' = [launch EXCEPT !.ncalls = @ + 1]
    /\ UNCHANGED g_function_info
    /\ UNCHANGED <<clientVars, headerVars, workerVars, peerVars, remoteVars,
                   imageVars, onceVars>>

\* hipModuleLaunchKernel: err is what hip_remote_request returns if called.
hipModuleLaunchKernel(f, params, extra, malloc_ok, err) ==
    /\ LaunchCallsLeft
    /\ LET cached == get_function_num_args(f)
           num_args == IF cached = 0 /\ ~params.null
                       THEN CountParams(params) ELSE cached
           Ret(ret, requested, packed) ==
               Launched("hipModuleLaunchKernel", f, params, extra, ret,
                        requested, packed)
       IN  launch' =
             IF f = 0 THEN Ret(hipErrorInvalidHandle, FALSE, 0)
             ELSE IF ExtraRejected(extra)
             THEN Ret(hipErrorNotSupported, FALSE, 0)
             ELSE IF cached > 0 /\ params.null
             THEN Ret(hipErrorInvalidValue, FALSE, 0)
             ELSE IF ~malloc_ok THEN Ret(hipErrorOutOfMemory, FALSE, 0)
             ELSE Ret(err, TRUE, num_args)
    /\ UNCHANGED <<g_function_count, g_function_info>>
    /\ UNCHANGED <<clientVars, headerVars, workerVars, peerVars, remoteVars,
                   imageVars, onceVars>>

\* hipLaunchKernel
hipLaunchKernel(params) ==
    /\ LaunchCallsLeft
    /\ launch' = Launched("hipLaunchKernel", 0, params, "null",
                          hipErrorNotSupported, FALSE, 0)
    /\ UNCHANGED <<g_function_count, g_function_info>>
    /\ UNCHANGED <<clientVars, headerVars, workerVars, peerVars, remoteVars,
                   imageVars, onceVars>>

NextLaunch ==
    \/ \E function \in Handles, num_args \in ArgCounts, err \in ErrCodes :
          hipModuleGetFunction(function, num_args, err)
    \/ \E k \in {1, MAX_TRACKED_FUNCTIONS - 1} : OtherFunctions(k)
    \/ \E f \in Handles \cup {0}, params \in ParamArrays,
          extra \in ExtraArrays, malloc_ok \in BOOLEAN,
          err \in ErrCodes \cup {hipErrorNotInitialized} :
          hipModuleLaunchKernel(f, params, extra, malloc_ok, err)
    \/ \E params \in ParamArrays : hipLaunchKernel(params)

SpecLaunch == Init /\ [][NextLaunch]_vars

(***************************************************************************)
(* hipModuleLoadData: the size of a code object image (hip_api_module.c)   *)
(***************************************************************************)

\* ---- uint64_t arithmetic on limbs ----
Add64(a, b) ==
    LET s0 == a[1] + b[1]
        s1 == a[2] + b[2] + s0 \div Limb
        s2 == a[3] + b[3] + s1 \div Limb
        s3 == a[4] + b[4] + s2 \div Limb
    IN  <<s0 % Limb, s1 % Limb, s2 % Limb, s3 % Limb>>

Less64(a, b) ==
    \/ a[4] < b[4]
    \/ a[4] = b[4] /\ a[3] < b[3]
    \/ a[4] = b[4] /\ a[3] = b[3] /\ a[2] < b[2]
    \/ a[4] = b[4] /\ a[3] = b[3] /\ a[2] = b[2] /\ a[1] < b[1]

\* A value below 2^31 as a number.
ToInt(a) == a[2] * Limb + a[1]

\* The product of two uint16_t values, exact, as a 64-bit value.
Mul16(a, b) ==
    LET p == (a \div 256) * b
        lo == (a % 256) * b + (p % 256) * 256
        hi == p \div 256 + lo \div Limb
    IN  <<lo % Limb, hi, 0, 0>>

\* A product that fits an int.
FitsInt(p) == p[2] < Limb \div 2 /\ p[3] = 0 /\ p[4] = 0

\* An int converted to uint64_t: a negative one is sign extended.
SignExtend(p) == IF p[2] >= Limb \div 2 THEN <<p[1], p[2], Limb - 1, Limb - 1>>
                 ELSE p

\* e_shnum * e_shentsize: both operands are promoted to int.  The results a
\* build can produce: the product when it fits an int; when it does not
\* (signed overflow), the wrapped int, or the product kept in a wider
\* register.
IntProduct(e_shnum, e_shentsize) ==
    LET p == Mul16(e_shnum, e_shentsize)
    IN  IF FitsInt(p) THEN {p} ELSE {SignExtend(p), p}

\* approx_size for an ELF image (lines 108-111)
ElfSizes(img) ==
    {Add64(img.e_shoff, p) : p \in IntProduct(img.e_shnum, img.e_shentsize)}

\* ---- the offload bundle ----
\* The image from data + 32 on, as 64-bit words: every entry is its offset,
\* its size, its triple length and the triple string (a multiple of eight
\* bytes here; its words read as zero).
RECURSIVE Layout(_)
Layout(entries) ==
    IF entries = <<>> THEN <<>>
    ELSE LET e == Head(entries)
         IN  <<e.offset, e.size, U64(e.triple_len)>>
                \o [i \in 1..(e.triple_len \div 8) |-> U64(0)]
                \o Layout(Tail(entries))

\* *(uint64_t*)ptr, with ptr a byte offset into the image
Read64(words, ptr) == words[(ptr - 32) \div 8 + 1]

MaxBundles == 16

Advance_fixed(ptr, triple_len) == ptr + 24
Advance(ptr, triple_len) == ptr + 24 + triple_len

\* The loop of lines 131-138 from entry i on.
RECURSIVE Walk(_, _, _, _, _)
Walk(words, num_bundles, i, ptr, max_end) ==
    IF ~(i < num_bundles /\ i < MaxBundles) THEN max_end
    ELSE LET offset == Read64(words, ptr)
             size == Read64(words, ptr + 8)
             triple_len == Read64(words, ptr + 16)
             end == Add64(offset, size)
         IN  Walk(words, num_bundles, i + 1, Advance(ptr, ToInt(triple_len)),
                  IF Less64(max_end, end) THEN end ELSE max_end)

\* lines 127-139
BundleSize(img) ==
    Walk(Layout(img.entries), img.num_bundles, 0, 32, U64(0))

\* approx_size before the plausibility test (lines 106-145)
FallbackSize == 16777216                  \* 16 * 1024 * 1024

Sniffed(img) ==
    CASE img.magic = "elf" -> ElfSizes(img)
      [] img.magic = "bundle" -> {BundleSize(img)}
      [] OTHER -> {U64(FallbackSize)}

\* lines 147-149
Plausible_any(approx_size) == TRUE
Plausible(approx_size) ==
    /\ ~Less64(approx_size, U64(64))
    /\ ~Less64(U64(HIP_REMOTE_MAX_PAYLOAD_SIZE), approx_size)

Clamped(approx_size) ==
    IF Plausible(approx_size) THEN ToInt(approx_size) ELSE FallbackSize

\* ---- the images ----
ShOffs ==
    {U64(0), U64(64), U64(4096), U64(131135),
     U64(HIP_REMOTE_MAX_PAYLOAD_SIZE - 64), U64(HIP_REMOTE_MAX_PAYLOAD_SIZE),
     <<0, 0, 1, 0>>, <<Limb - 64, Limb - 1, Limb - 1, Limb - 1>>}
ShNums == {0, 1, 64, Limb - 1}
ShEntSizes == {0, 64, Limb - 1}

ElfImages ==
    {[magic |-> "elf", e_shoff |-> o, e_shentsize |-> s, e_shnum |-> n,
      num_bundles |-> 0, entries |-> <<>>] :
        o \in ShOffs, n \in ShNums, s \in ShEntSizes}

BundleCounts == {0, 1, 2, MaxBundles, MaxBundles + 1}
TripleLens == {0, 8, 16}
Ends == {[offset |-> U64(0), size |-> U64(63)],
         [offset |-> U64(4096), size |-> U64(8192)],
         [offset |-> U64(HIP_REMOTE_MAX_PAYLOAD_SIZE), size |-> U64(1)]}

\* A table of n entries: entry k ends last, the others end at 4096.
BundleImages ==
    {[magic |-> "bundle", e_shoff |-> U64(0), e_shentsize |-> 0,
      e_shnum |-> 0, num_bundles |-> n,
      entries |-> [i \in 1..n |->
                     IF i = k
                     THEN [offset |-> e.offset, size |-> e.size,
                           triple_len |-> t]
                     ELSE [offset |-> U64(2048), size |-> U64(2048),
                           triple_len |-> t]]] :
        n \in BundleCounts, k \in {1, 2, MaxBundles, MaxBundles + 1},
        t \in TripleLens, e \in Ends}

Images == ElfImages \cup BundleImages \cup {NoImage}

LoadCallsLeft == load.ncalls < MaxLoadCalls

\* hipModuleLoadData(module, image)
\* The payload_length hip_remote_request_with_data declares:
\* (uint32_t)(request_size + data_size), a sum that stays below 2^32 here.
WithDataLength(request_size, data_size) == request_size + data_size

hipModuleLoadData(img, null, err) ==
    /\ LoadCallsLeft
    /\ image' = img
    /\ IF null
       THEN load' = [NoLoad EXCEPT !.ret = hipErrorInvalidValue,
                                   !.null = TRUE,
                                   !.ncalls = load.ncalls + 1]
       ELSE \E approx_size \in Sniffed(img) :
              load' = [ret |-> err, null |-> FALSE,
                       approx_size |-> approx_size,
                       uploaded |-> Clamped(approx_size),
                       data_size |-> Clamped(approx_size),
                       payload_length |->
                           WithDataLength(ModuleLoadRequestSize,
                                          Clamped(approx_size)),
                       sent |-> TRUE,
                       module |-> IF err = hipSuccess THEN "set"
                                  ELSE "unset",
                       ncalls |-> load.ncalls + 1]
    /\ UNCHANGED <<clientVars, headerVars, workerVars, peerVars, remoteVars,
                   launchVars, onceVars>>

NextSniff ==
    \E img \in Images, null \in BOOLEAN,
       err \in {hipSuccess, hipErrorNotInitialized} :
        hipModuleLoadData(img, null, err)

SpecSniff == Init /\ [][NextSniff]_vars

(***************************************************************************)
(* The one-time initialisation of the client (hip_client.c)                *)
(***************************************************************************)

OncePc(t, at) == [opc EXCEPT !.pc[t] = at]

\* The library is loaded.  The constructor hip_remote_client_init (on
\* Windows, DllMain at process attach) calls init_from_environment itself;
\* a static Windows build has neither.
LibraryLoad(constructor) ==
    /\ ~opc.loaded
    /\ opc' = [opc EXCEPT !.loaded = TRUE]
    /\ env_reads' = IF constructor THEN env_reads + 1 ELSE env_reads
    /\ UNCHANGED <<clientVars, headerVars, workerVars, peerVars, remoteVars,
                   launchVars, imageVars, g_init_once>>

\* hip_call_once(&g_init_once, init_from_environment) at the start of an
\* entry point: the first caller runs the function, a caller that arrives
\* while it runs waits, a later one returns at once.
hip_call_once(t) ==
    /\ opc.loaded
    /\ opc.pc[t] = "idle"
    /\ opc.calls[t] < MaxOnceCalls
    /\ g_init_once' = IF g_init_once = "init" THEN "running" ELSE g_init_once
    /\ opc' = OncePc(t, CASE g_init_once = "init" -> "in_init"
                          [] g_init_once = "running" -> "wait"
                          [] OTHER -> "return")
    /\ UNCHANGED <<clientVars, headerVars, workerVars, peerVars, remoteVars,
                   launchVars, imageVars, env_reads>>

\* init_from_environment, run under the guard
init_from_environment(t) ==
    /\ opc.pc[t] = "in_init"
    /\ env_reads' = env_reads + 1
    /\ g_init_once' = "done"
    /\ opc' = OncePc(t, "return")
    /\ UNCHANGED <<clientVars, headerVars, workerVars, peerVars, remoteVars,
                   launchVars, imageVars>>

\* A waiting caller goes on when the function has returned.
OnceWake(t) ==
    /\ opc.pc[t] = "wait"
    /\ g_init_once = "done"
    /\ opc' = OncePc(t, "return")
    /\ UNCHANGED <<clientVars, headerVars, workerVars, peerVars, remoteVars,
                   launchVars, imageVars, g_init_once, env_reads>>

\* The entry point goes on and returns.
OnceReturn(t) ==
    /\ opc.pc[t] = "return"
    /\ opc' = [opc EXCEPT !.pc[t] = "idle", !.calls[t] = @ + 1]
    /\ UNCHANGED <<clientVars, headerVars, workerVars, peerVars, remoteVars,
                   launchVars, imageVars, g_init_once, env_reads>>

NextOnce ==
    \/ \E constructor \in BOOLEAN : LibraryLoad(constructor)
    \/ \E t \in Threads : hip_call_once(t)
    \/ \E t \in Threads : init_from_environment(t)
    \/ \E t \in Threads : OnceWake(t)
    \/ \E t \in Threads : OnceReturn(t)

SpecOnce == Init /\ [][NextOnce]_vars

(***************************************************************************)
(* The metrics client (smi_client.c) against handle_client                 *)
(***************************************************************************)
SmiCallsLeft == smi.ncalls < MaxSmiCalls

\* What handle_client answers to a request frame it has read completely.
WorkerAnswers(header) ==
    {rs[1] : rs \in Responses(header, header.payload_length, 0)}

\* What another peer may answer: a worker-like frame, or one with a wrong
\* magic, a wrong major version, no payload, or too long a payload.
OtherAnswers(header, response_size) ==
    LET ok(code) == Answer(header.op_code, header.request_id, response_size,
                           code, NoRuntime)
    IN  {ok(hipSuccess), ok(hipErrorNotSupported),
         [ok(hipSuccess) EXCEPT !.h.magic = HIP_REMOTE_MAGIC + 1],
         [ok(hipSuccess) EXCEPT !.h.version = HIP_REMOTE_VERSION + 256],
         [ok(hipSuccess) EXCEPT !.h.payload_length = 0],
         [ok(hipSuccess) EXCEPT !.h.payload_length =
                                   HIP_REMOTE_MAX_PAYLOAD_SIZE + 1]}

\* disconnect()
SmiDisconnect(g) ==
    [g EXCEPT !.socket_fd = HIP_INVALID_SOCKET, !.connected = FALSE]

\* The test send_request makes on the header it received.
SmiHeaderAccepted(header) == header.magic = HIP_REMOTE_MAGIC

\* The error_code the caller finds in its response record, which it does
\* not initialise: the frame's when the payload read covers it.
SmiCodes(a, read) ==
    IF read >= ResponseHeaderSize THEN {a.code}
    ELSE {hipSuccess, hipErrorNotSupported}

\* send_request with g_client g, as a whole: ensure_connected, the request
\* frame, the response header and its test, the response payload.
\* conn_ok: the connect succeeds; sent: the request was sent and a
\* response header arrived; a: the response; body: its payload arrived.
send_request(g, op_code, request_size, response_size, conn_ok, sent, a, body) ==
    LET dial == ~(g.connected /\ g.socket_fd # HIP_INVALID_SOCKET)
        g1 == IF dial THEN [g EXCEPT !.socket_fd = 3, !.connected = TRUE]
              ELSE g
        g2 == [g1 EXCEPT !.next_request_id = @ + 1]
        io_error(x, answered, read) ==
            [g |-> x, status |-> SMI_STATUS_IO_ERROR, answered |-> answered,
             header |-> IF answered THEN a.h ELSE NoSmi.header,
             read |-> read, codes |-> {hipSuccess}]
    IN  IF dial /\ ~conn_ok
        THEN io_error([g EXCEPT !.socket_fd = HIP_INVALID_SOCKET], FALSE, 0)
        ELSE IF ~sent THEN io_error(SmiDisconnect(g2), FALSE, 0)
        ELSE IF ~SmiHeaderAccepted(a.h)
        THEN io_error(SmiDisconnect(g2), TRUE, 0)
        ELSE IF a.h.payload_length > response_size
        THEN io_error(SmiDisconnect(g2), TRUE, 0)
        ELSE IF a.h.payload_length > 0 /\ ~body
        THEN io_error(SmiDisconnect(g2), TRUE, 0)
        ELSE [g |-> g2, status |-> SMI_STATUS_SUCCESS, answered |-> TRUE,
              header |-> a.h, read |-> a.h.payload_length,
              codes |-> SmiCodes(a, a.h.payload_length)]

\* Every way send_request can go against the peer.
SmiRounds(g, peer, op_code, request_size, response_size) ==
    LET header == hip_remote_init_header(op_code, g.next_request_id,
                                         request_size)
    IN  IF peer = "worker"
        THEN {send_request(g, op_code, request_size, response_size, TRUE,
                           TRUE, a, TRUE) : a \in WorkerAnswers(header)}
        ELSE {send_request(g, op_code, request_size, response_size, conn_ok,
                           sent, a, body) :
                conn_ok \in BOOLEAN, sent \in BOOLEAN, body \in BOOLEAN,
                a \in OtherAnswers(header, response_size)}

\* The call fn has returned status, with send_request's outcome o.
SmiReturned(fn, peer, available, o, status, initialized) ==
    smi' = [o.g EXCEPT !.fn = fn, !.status = status, !.peer = peer,
                       !.available = available, !.header = o.header,
                       !.answered = o.answered, !.read = o.read,
                       !.initialized = initialized,
                       !.ncalls = smi.ncalls + 1]

\* A call that returns without send_request.
SmiLocal(fn, status) ==
    SmiReturned(fn, "none", FALSE,
                [g |-> smi, header |-> NoSmi.header, answered |-> FALSE,
                 read |-> 0], status, smi.initialized)

\* smi_remote_init
smi_remote_init(peer, available) ==
    /\ SmiCallsLeft
    /\ IF smi.initialized
       THEN SmiLocal("smi_remote_init", SMI_STATUS_SUCCESS)
       ELSE \E o \in SmiRounds(smi, peer, SMI_OP_INIT, SmiInitRequestSize,
                               ResponseHeaderSize) :
            \E code \in o.codes :
               IF o.status # SMI_STATUS_SUCCESS
               THEN SmiReturned("smi_remote_init", peer, available, o,
                                o.status, FALSE)
               ELSE IF code # 0
               THEN SmiReturned("smi_remote_init", peer, available, o,
                                SMI_STATUS_API_FAILED, FALSE)
               ELSE SmiReturned("smi_remote_init", peer, available, o,
                                SMI_STATUS_SUCCESS, TRUE)
    /\ UNCHANGED <<clientVars, headerVars, workerVars, remoteVars,
                   launchVars, imageVars, onceVars, hnd>>

\* smi_remote_get_processor_count
smi_remote_get_processor_count(null, peer, available) ==
    /\ SmiCallsLeft
    /\ IF null
       THEN SmiLocal("smi_remote_get_processor_count",
                     SMI_STATUS_INVALID_ARGS)
       ELSE \E o \in SmiRounds(smi, peer, SMI_OP_GET_PROCESSOR_COUNT, 0,
                               SmiCountResponseSize) :
            \E code \in o.codes :
               SmiReturned("smi_remote_get_processor_count", peer,
                           available, o,
                           IF o.status # SMI_STATUS_SUCCESS THEN o.status
                           ELSE IF code # 0 THEN SMI_STATUS_API_FAILED
                           ELSE SMI_STATUS_SUCCESS,
                           smi.initialized)
    /\ UNCHANGED <<clientVars, headerVars, workerVars, remoteVars,
                   launchVars, imageVars, onceVars, hnd>>

\* smi_remote_shutdown
smi_remote_shutdown ==
    /\ SmiCallsLeft
    /\ SmiReturned("smi_remote_shutdown", "none", FALSE,
                   [g |-> SmiDisconnect(smi), header |-> NoSmi.header,
                    answered |-> FALSE, read |-> 0],
                   SMI_STATUS_SUCCESS, FALSE)
    /\ UNCHANGED <<clientVars, headerVars, workerVars, remoteVars,
                   launchVars, imageVars, onceVars, hnd>>

NextSmi ==
    \/ \E peer \in {"worker", "other"}, available \in BOOLEAN :
          smi_remote_init(peer, available)
    \/ \E null \in BOOLEAN, peer \in {"worker", "other"},
          available \in BOOLEAN :
          smi_remote_get_processor_count(null, peer, available)
    \/ smi_remote_shutdown

SpecSmi == Init /\ [][NextSmi]_vars

(***************************************************************************)
(* The worker's handlers of requests with a variable-length part           *)
(* (hip_worker_main.c): handle_memcpy, handle_module_load_data and         *)
(* handle_launch_kernel, each run on a payload of payload_size bytes the   *)
(* request loop has received.  hnd records the last run: the furthest      *)
(* payload offset read (read_end), the payload_length its response header  *)
(* declares and the payload bytes sent after the header.                   *)
(***************************************************************************)
HandlerCallsLeft == hnd.ncalls < MaxHandlerCalls

\* (uint32_t) of a 64-bit value
Low32(a) == <<a[1], a[2], 0, 0>>

Handled(op, kind, payload_size, code, read_end, frame) ==
    hnd' = [op |-> op, kind |-> kind, payload_size |-> payload_size,
            code |-> code, read_end |-> read_end,
            declared |-> frame.declared, sent |-> frame.sent,
            ncalls |-> hnd.ncalls + 1]

\* send_response: the header declares (uint32_t)payload_size, and
\* payload_size bytes follow.
Framed(payload_size) ==
    [declared |-> Low32(payload_size), sent |-> payload_size]

\* send_simple_response: a bare HipRemoteResponseHeader
SimpleFrame == Framed(U64(ResponseHeaderSize))

\* The response of a device-to-host copy: hip_remote_init_header takes
\* sizeof(HipRemoteMemcpyResponse) + req->size as a uint32_t; the record and
\* req->size bytes of the buffer are sent.
MemcpyDataFrame(size) ==
    [declared |-> Low32(Add64(U64(ResponseHeaderSize), size)),
     sent |-> Add64(U64(ResponseHeaderSize), size)]

\* handle_memcpy: size is req->size, err the runtime's answer to hipMemcpy,
\* malloc_ok whether malloc(req->size) returned a buffer.
handle_memcpy(payload_size, has_inline_data, kind, size, malloc_ok, err) ==
    /\ HandlerCallsLeft
    /\ IF payload_size < MemcpyRequestSize
       THEN Handled("memcpy", kind, payload_size, hipErrorInvalidValue, 0,
                    SimpleFrame)
       ELSE IF kind = hipMemcpyHostToDevice /\ has_inline_data
       THEN LET data_available == payload_size - MemcpyRequestSize
            IN  IF ~Less64(U64(data_available), size)
                THEN Handled("memcpy", kind, payload_size, err,
                             MemcpyRequestSize + ToInt(size), SimpleFrame)
                ELSE Handled("memcpy", kind, payload_size,
                             hipErrorInvalidValue, MemcpyRequestSize,
                             SimpleFrame)
       ELSE IF kind = hipMemcpyDeviceToHost
       THEN IF ~malloc_ok
            THEN Handled("memcpy", kind, payload_size, hipErrorOutOfMemory,
                         MemcpyRequestSize, SimpleFrame)
            ELSE IF err = hipSuccess
            THEN Handled("memcpy", kind, payload_size, err,
                         MemcpyRequestSize, MemcpyDataFrame(size))
            ELSE Handled("memcpy", kind, payload_size, err,
                         MemcpyRequestSize, SimpleFrame)
       ELSE IF kind = hipMemcpyDeviceToDevice
       THEN Handled("memcpy", kind, payload_size, err, MemcpyRequestSize,
                    SimpleFrame)
       ELSE Handled("memcpy", kind, payload_size, hipErrorInvalidValue,
                    MemcpyRequestSize, SimpleFrame)
    /\ UNCHANGED <<clientVars, headerVars, workerVars, remoteVars,
                   launchVars, imageVars, onceVars, smi>>

\* handle_module_load_data: data_size is req->data_size; the runtime is
\* handed code_data and reads the data_size bytes of the code object.
handle_module_load_data(payload_size, data_size, err) ==
    /\ HandlerCallsLeft
    /\ IF payload_size < ModuleLoadRequestSize
       THEN Handled("module_load_data", 0, payload_size,
                    hipErrorInvalidValue, 0, SimpleFrame)
       ELSE LET code_size == payload_size - ModuleLoadRequestSize
            IN  IF Less64(U64(code_size), data_size)
                THEN Handled("module_load_data", 0, payload_size,
                             hipErrorInvalidValue, ModuleLoadRequestSize,
                             SimpleFrame)
                ELSE Handled("module_load_data", 0, payload_size, err,
                             ModuleLoadRequestSize + ToInt(data_size),
                             Framed(U64(ModuleLoadResponseSize)))
    /\ UNCHANGED <<clientVars, headerVars, workerVars, remoteVars,
                   launchVars, imageVars, onceVars, smi>>

\* The end of the argument bytes the first n descriptors point to, as
\* offsets into arg_data.
RECURSIVE ArgsEnd(_, _)
ArgsEnd(arg_descs, n) ==
    IF n = 0 THEN 0
    ELSE LET rest == ArgsEnd(arg_descs, n - 1)
             end == arg_descs[n].offset + arg_descs[n].size
         IN  IF end > rest THEN end ELSE rest

\* handle_launch_kernel: num_args is req->num_args, arg_descs the
\* descriptors that follow the request record.  kernel_params[i] is formed
\* as arg_data + arg_descs[i].offset with no look at the payload's size;
\* the runtime reads each argument where kernel_params[i] points.
handle_launch_kernel(payload_size, num_args, arg_descs, err) ==
    /\ HandlerCallsLeft
    /\ IF payload_size < LaunchKernelRequestSize
       THEN Handled("launch_kernel", 0, payload_size, hipErrorInvalidValue,
                    0, SimpleFrame)
       ELSE LET expected_min == LaunchKernelRequestSize
                                   + num_args * KernelArgSize
                n == Min(num_args, HIP_REMOTE_MAX_KERNEL_ARGS)
            IN  IF payload_size < expected_min
                THEN Handled("launch_kernel", 0, payload_size,
                             hipErrorInvalidValue, LaunchKernelRequestSize,
                             SimpleFrame)
                ELSE Handled("launch_kernel", 0, payload_size, err,
                             expected_min + ArgsEnd(arg_descs, n),
                             SimpleFrame)
    /\ UNCHANGED <<clientVars, headerVars, workerVars, remoteVars,
                   launchVars, imageVars, onceVars, smi>>

\* Requests a peer can send: payload sizes around the fixed records, copy
\* sizes up to and beyond what a frame can carry, argument descriptors
\* inside and outside the payload.
MemcpyPayloadSizes == {20, MemcpyRequestSize, MemcpyRequestSize + 16}
MemcpySizes ==
    {U64(0), U64(16), U64(17), U64(HIP_REMOTE_MAX_PAYLOAD_SIZE - 4),
     U64(HIP_REMOTE_MAX_PAYLOAD_SIZE), <<0, 0, 1, 0>>}
MemcpyKinds ==
    {0, hipMemcpyHostToDevice, hipMemcpyDeviceToHost,
     hipMemcpyDeviceToDevice}
LoadPayloadSizes == {4, ModuleLoadRequestSize, ModuleLoadRequestSize + 16}
LoadDataSizes == {U64(0), U64(16), U64(17)}
LaunchPayloadSizes ==
    {40, LaunchKernelRequestSize, LaunchKernelRequestSize + 16,
     LaunchKernelRequestSize + 32}
ArgDescs == [size : {4, 8}, offset : {0, 8, 4096}]
RuntimeErrors == {hipSuccess, hipErrorInvalidValue}

NextHandlers ==
    \/ \E payload_size \in MemcpyPayloadSizes, has_inline_data \in BOOLEAN,
          kind \in MemcpyKinds, size \in MemcpySizes,
          malloc_ok \in BOOLEAN, err \in RuntimeErrors :
          handle_memcpy(payload_size, has_inline_data, kind, size,
                        malloc_ok, err)
    \/ \E payload_size \in LoadPayloadSizes, data_size \in LoadDataSizes,
          err \in RuntimeErrors :
          handle_module_load_data(payload_size, data_size, err)
    \/ \E payload_size \in LaunchPayloadSizes, num_args \in 0..2,
          arg_descs \in [1..2 -> ArgDescs], err \in RuntimeErrors :
          handle_launch_kernel(payload_size, num_args, arg_descs, err)

SpecHandlers == Init /\ [][NextHandlers]_vars

(***************************************************************************)
(* Properties                                                              *)
(***************************************************************************)
\* Positions between the first byte of a frame sent and the last byte of
\* its response read (the INIT exchange of the handshake included).
ExchangePcs == {"hs_recv_hdr", "hs_recv_body", "send_req", "send_data",
                "recv_hdr", "recv_resp", "drain", "recv_data"}
InExchange(t) == pc[t] \in ExchangePcs

\* Positions of a request primitive after connect_to_worker_locked returned 0.
PastConnectPcs == {"send_hdr", "send_req", "send_data", "recv_hdr",
                   "recv_resp", "drain", "recv_data", "done"}

\* C1: at most one thread at a time is inside an exchange on the socket,
\* the thread inside it is the one that last used the socket, and no thread
\* ever does socket I/O while another thread's exchange is in progress.
C1_Serialized ==
    /\ \A t1, t2 \in Threads :
          (t1 # t2) => ~(InExchange(t1) /\ InExchange(t2))
    /\ \A t \in Threads : InExchange(t) => (wireOwner = t /\ lock = t)
    /\ ~interleaved

\* C1 witness: one thread is inside an exchange while another thread has
\* called an entry point and waits for the mutex.
C1_Witness ==
    \E t1, t2 \in Threads :
        /\ t1 # t2
        /\ pc[t1] = "recv_resp"
        /\ pc[t2] = "lock"

\* C2 (as claimed): connect reports success only after an INIT response
\* whose header validated and whose whole error code was read and equals
\* hipSuccess.
C2_HandshakeChecked ==
    \A t \in Threads : call[t].hs => call[t].hsAck

C4_FailureDisconnects ==
    \A t \in Threads :
        (pc[t] \in {"fail_unlock", "ens_unlock"}
            /\ call[t].failedAt # "none") =>
            /\ socket_fd = HIP_INVALID_SOCKET
            /\ ~connected
            /\ nOpen = 0

\* C4 witness: a request primitive is at its failure exit after its
\* response header failed validation.
C4_Witness ==
    \E t \in Threads :
        /\ pc[t] = "fail_unlock"
        /\ call[t].failedAt = "invalid header"
        /\ call[t].sentHdr = 1

C6_SentAtMostOnce ==
    \A t \in Threads :
        /\ call[t].sentHdr <= 1
        /\ pc[t] = "fail_unlock" => call[t].ret # hipSuccess

\* C6 witness: a call whose request was sent has failed because the
\* connection dropped before the response arrived.
C6_Witness ==
    \E t \in Threads :
        /\ pc[t] = "fail_unlock"
        /\ call[t].sentHdr = 1
        /\ call[t].failedAt = "recv header"
        /\ ~call[t].clean

\* C7 (as claimed): when hip_remote_request returns after a response that
\* declared more payload than the caller's buffer holds, the buffer was
\* filled and the whole frame, header and payload, was consumed.
C7_DrainKeepsFraming ==
    \A t \in Threads :
        LET c == call[t] IN
        (pc[t] = "done" /\ c.kind = "request" /\ c.aligned
            /\ c.resp_header.payload_length > c.response_size) =>
            /\ c.respWritten = c.response_size
            /\ c.consumed = HeaderSize + c.resp_header.payload_length

\* C8 (as claimed): when an inline-data primitive returns with the
\* connection still marked connected, exactly 20 + payload_length response
\* bytes were consumed.
C8_InlineDataKeepsFraming ==
    \A t \in Threads :
        LET c == call[t] IN
        (pc[t] = "done" /\ c.kind \in {"with_data", "receive_data"}
            /\ c.aligned /\ connected) =>
            c.consumed = HeaderSize + c.resp_header.payload_length

\* C9: no primitive stores more than response_size bytes in the caller's
\* response record or more than data_size bytes in its inline-data buffer.
C9_NoOverrun ==
    \A t \in Threads :
        /\ call[t].respWritten <= call[t].response_size
        /\ call[t].dataWritten <= call[t].data_size

\* C9 witness: a response that declared more payload than the caller's
\* record holds was received, and exactly the record was filled.
C9_Witness ==
    \E t \in Threads :
        /\ pc[t] = "done"
        /\ call[t].response_size > 0
        /\ call[t].resp_header.payload_length > call[t].response_size
        /\ call[t].respWritten = call[t].response_size

\* C10: validation succeeds exactly for the right magic, the right major
\* version and a payload length of at most 64 MiB; a header as
\* hip_remote_init_header builds it validates whenever its length is at
\* most 64 MiB; and changing the magic or the major version of a header
\* that validates makes it fail.
C10_HeaderValidation ==
    /\ [](vres = 0 <=>
            /\ hdr.magic = HIP_REMOTE_MAGIC
            /\ Shr8(hdr.version) = Shr8(HIP_REMOTE_VERSION)
            /\ hdr.payload_length <= HIP_REMOTE_MAX_PAYLOAD_SIZE)
    /\ []((hdr = hip_remote_init_header(hdr.op_code, hdr.request_id,
                                        hdr.payload_length)
            /\ hdr.payload_length <= HIP_REMOTE_MAX_PAYLOAD_SIZE)
           => vres = 0)
    /\ [][(vres = 0 /\ (hdr'.magic # hdr.magic
                        \/ Shr8(hdr'.version) # Shr8(hdr.version)))
           => vres' # 0]_vars

\* C10 witness: a header with the right magic and a length of exactly
\* 64 MiB was rejected after its major version was changed.
C10_Witness ==
    /\ hdr.magic = HIP_REMOTE_MAGIC
    /\ hdr.payload_length = HIP_REMOTE_MAX_PAYLOAD_SIZE
    /\ Shr8(hdr.version) = 2
    /\ vres = -2

\* C14: the request ids of the frames sent on a connection (the INIT of
\* the handshake, every request header, the SHUTDOWN of a disconnect) are
\* strictly increasing in the order the frames were sent.
C14_IdsIncrease ==
    \A i, j \in DOMAIN sentIds : i < j => sentIds[i] < sentIds[j]

\* C14 witness: after a first connection was lost, a second connection has
\* carried its INIT and a request of another call.
C14_Witness ==
    /\ Len(sentIds) >= 2
    /\ sentIds[1] > 1
    /\ last_error = hipErrorNotInitialized

(***************************************************************************)
(* Properties of the worker and of the API entry points                    *)
(***************************************************************************)
\* The three ways a header fails validation, written out.
BadMagic(h) == h.magic # HIP_REMOTE_MAGIC
BadMajor(h) == h.version \div 256 # 1
TooLong(h) == h.payload_length > 64 * 1024 * 1024
Served(c) == fd[c].st \in {"serving", "closed"}

\* C11: after the worker has read a header with a wrong magic, a wrong
\* major version or a payload_length above 64 MiB, it holds no payload
\* buffer, has read no payload byte of that frame, has not dispatched it
\* and is on its way to closing the connection; and no payload buffer
\* larger than 64 MiB is ever allocated.
C11_InvalidHeaderTornDown ==
    \A c \in Conns :
        /\ fd[c].alloc <= 64 * 1024 * 1024
        /\ (Served(c) /\ (BadMagic(fd[c].header) \/ BadMajor(fd[c].header)
                          \/ TooLong(fd[c].header))) =>
              /\ fd[c].wpc \in {"client_done", "none"}
              /\ fd[c].why = "invalid"
              /\ fd[c].alloc = 0
              /\ fd[c].got = 0
              /\ \A k \in DOMAIN fd[c].read : fd[c].read[k] # fd[c].header
              /\ \A k \in DOMAIN fd[c].answers :
                    fd[c].answers[k].h.request_id # fd[c].header.request_id

\* C11 witness: a header declaring more than 64 MiB was read after an
\* earlier request on the same connection had been answered, and the
\* connection has been closed.
C11_Witness ==
    \E c \in Conns :
        /\ fd[c].st = "closed"
        /\ TooLong(fd[c].header)
        /\ ~BadMagic(fd[c].header)
        /\ Len(fd[c].answers) = 1

\* C12 (as claimed): whenever the worker is not in the middle of a request,
\* it has sent exactly one response for every request frame that arrived
\* whole with a header that validates.
C12_EveryValidRequestAnswered ==
    \A c \in Conns :
        fd[c].wpc \notin {"recv_payload", "dispatch"} =>
            Len(fd[c].answers) = fd[c].valid

\* C12 (amended): the worker has sent exactly one response for every
\* request whose payload it allocated and read completely, none for any
\* other frame; the response is sent after the whole payload was read and
\* before the next header is read; and when a request that arrived whole
\* went unanswered, the payload allocation failed and the connection is
\* torn down.
C12_OneResponsePerRequestRead ==
    \A c \in Conns :
        /\ fd[c].wpc = "dispatch" =>
              /\ Len(fd[c].answers) = Len(fd[c].read) - 1
              /\ fd[c].got = fd[c].header.payload_length
        /\ fd[c].wpc # "dispatch" => Len(fd[c].answers) = Len(fd[c].read)
        /\ (fd[c].wpc \notin {"recv_payload", "dispatch"}
               /\ Len(fd[c].answers) # fd[c].valid) =>
              /\ fd[c].why = "nomem"
              /\ fd[c].wpc \in {"client_done", "none"}
              /\ Len(fd[c].answers) = fd[c].valid - 1

\* C12 witness: two requests sent back to back on one connection, the
\* first with a payload, have both been answered.
C12_Witness ==
    \E c \in Conns :
        /\ Len(fd[c].answers) = 2
        /\ fd[c].read[1].payload_length > 0
        /\ fd[c].wpc = "recv_hdr"

C15_UnknownOpcodeAnswered ==
    /\ [](\A c \in Conns : \A k \in DOMAIN fd[c].answers :
             fd[c].read[k].op_code \notin KnownOps =>
                /\ fd[c].answers[k].code = hipErrorNotSupported
                /\ fd[c].answers[k].h.payload_length = ResponseHeaderSize
                /\ fd[c].answers[k].h.op_code = fd[c].read[k].op_code)
    /\ [][\A c \in Conns :
             (fd[c].wpc = "dispatch" /\ fd'[c].wpc # "dispatch"
                 /\ fd[c].header.op_code \notin KnownOps) =>
                (fd'[c].st = "serving" /\ fd'[c].wpc = "loop")]_vars

\* C15 witness: a request with an unknown opcode was answered and the
\* request after it on the same connection was answered by its handler.
C15_Witness ==
    \E c \in Conns :
        /\ Len(fd[c].answers) = 2
        /\ fd[c].read[1].op_code \notin KnownOps
        /\ fd[c].answers[1].code = hipErrorNotSupported
        /\ fd[c].read[2].op_code = HIP_OP_MALLOC

\* C16: nothing is read from a connection after its SHUTDOWN request or
\* after a receive on it failed; a connection that is closed stays as it
\* is; closing a connection puts main back at accept; the connection is
\* closed eventually; and a connection waiting to be accepted is served
\* eventually unless the worker is told to stop.
C16_ClosesAndAcceptsAgain ==
    /\ [](\A c \in Conns :
             /\ \A k \in DOMAIN fd[c].read :
                   fd[c].read[k].op_code = HIP_OP_SHUTDOWN =>
                      k = Len(fd[c].read)
             /\ fd[c].why \in {"shutdown", "eof"} =>
                   fd[c].wpc \in {"client_done", "none"})
    /\ [][\A c \in Conns :
             /\ fd[c].st = "closed" => fd'[c] = fd[c]
             /\ fd[c].why \in {"shutdown", "eof"} =>
                   (fd'[c].read = fd[c].read
                    /\ fd'[c].answers = fd[c].answers
                    /\ fd'[c].valid = fd[c].valid)
             /\ (fd[c].wpc = "client_done" /\ fd'[c].wpc # "client_done") =>
                   (fd'[c].st = "closed" /\ wmain' = "accept")]_vars
    /\ \A c \in Conns :
          /\ (fd[c].why \in {"shutdown", "eof"}) ~> (fd[c].st = "closed")
          /\ (fd[c].st = "queued")
                ~> (fd[c].st \in {"serving", "closed"} \/ ~g_running)

\* C16 witness: a connection was closed after its SHUTDOWN request, and
\* the connection made after it is being served and has been answered.
C16_Witness ==
    \E c, d \in Conns :
        /\ fd[c].st = "closed"
        /\ fd[c].why = "shutdown"
        /\ fd[d].st = "serving"
        /\ Len(fd[d].answers) = 1

\* C17: at most one connection is being served at any time, main is inside
\* handle_client exactly while one is, and only the connection being
\* served has a frame read or answered.
C17_OneConnectionAtATime ==
    /\ [](/\ Cardinality({c \in Conns : fd[c].st = "serving"}) <= 1
          /\ (wmain = "handle_client") <=>
                (\E c \in Conns : fd[c].st = "serving"))
    /\ [][\A c \in Conns :
             (fd'[c].read # fd[c].read \/ fd'[c].answers # fd[c].answers) =>
                (fd[c].st = "serving"
                 /\ \A d \in Conns \ {c} : fd[d].st # "serving")]_vars

\* C17 witness: a second connection has been made and has sent a frame
\* while the first is being served; its frame is still unread.
C17_Witness ==
    \E c, d \in Conns :
        /\ fd[c].st = "serving"
        /\ Len(fd[c].answers) = 1
        /\ fd[d].st = "queued"
        /\ Len(net[d].inbox) = 1

\* C18 (as claimed): every response carries the result code of a runtime
\* call made for its request, and an API call that has read its response
\* returns the code of that response.
C18_CodeCarriedVerbatim ==
    \A c \in Conns :
        /\ \A k \in DOMAIN fd[c].answers :
              fd[c].answers[k].rt # NoRuntime =>
                 fd[c].answers[k].code = fd[c].answers[k].rt
        /\ net[c].last.answered => net[c].last.ret = net[c].last.code

\* C19 (as claimed): the client library puts no frame on the wire whose
\* payload exceeds 64 MiB.
C19_OversizeNotSent ==
    \A c \in Conns :
        net[c].kind = "client" =>
            net[c].maxSent <= HIP_REMOTE_MAX_PAYLOAD_SIZE

C21_ZeroLengthLocal ==
    /\ (app.fn = "hipMalloc" /\ app.size = 0 /\ ~app.ptrNull) =>
          (app.ret = hipSuccess /\ app.out = "null")
    /\ (app.fn \in {"hipMemcpyH2D", "hipMemcpyD2H"} /\ app.size = 0) =>
          app.ret = hipSuccess
    /\ (app.fn \in {"hipMalloc", "hipMemcpyH2D", "hipMemcpyD2H"}
            /\ app.size = 0) =>
          (app.frames = 0 /\ app.connects = 0)

\* C21 witness: hipMalloc(ptr, 0) has returned while the client has never
\* been connected.
C21_Witness ==
    /\ app.fn = "hipMalloc"
    /\ app.size = 0
    /\ ~app.ptrNull
    /\ app.out = "null"
    /\ ~cli.connected
    /\ app.ncalls = 1

\* C22 (as claimed): after an entry point that hands back a handle or a
\* value through an output pointer has failed, by a transport failure or
\* by a remote error code, the caller's output is null and holds no value
\* from before the call.
C22_OutputDefinedOnFailure ==
    (app.fn \in OutputCalls \cup {"hipMalloc"} /\ ~app.ptrNull
        /\ app.frames + app.connects > 0 /\ app.ret # hipSuccess) =>
       app.out = "null"

C24_ArgCountFromLookup ==
    (launch.fn = "hipModuleLaunchKernel" /\ launch.requested) =>
       IF launch.reported[launch.f] > 0
       THEN launch.packed = launch.reported[launch.f]
       ELSE launch.packed = IF launch.params.null THEN 0
                            ELSE Min(launch.params.n, 64)

(***************************************************************************)
(* Properties of the size hipModuleLoadData computes                       *)
(***************************************************************************)

\* hipModuleLoadData has looked at the image it was given.
Loaded(magic) == load.ncalls > 0 /\ ~load.null /\ image.magic = magic

\* e_shoff + e_shnum * e_shentsize
ElfEnd == Add64(image.e_shoff, Mul16(image.e_shnum, image.e_shentsize))

\* C25 (as claimed): for an image that begins with the ELF magic the size
\* computed is e_shoff + e_shnum * e_shentsize, and when that value is
\* plausible it is the number of bytes uploaded and the data_size declared.
C25_ElfSizeExact ==
    Loaded("elf") =>
       /\ load.approx_size = ElfEnd
       /\ Plausible(ElfEnd) =>
             (load.uploaded = ToInt(ElfEnd) /\ load.data_size = ToInt(ElfEnd))

\* The greatest offset + size among the first min(count, 16) entries of the
\* table, zero for an empty table.
VisitedEnds ==
    {Add64(image.entries[i].offset, image.entries[i].size) :
        i \in 1..Min(image.num_bundles, MaxBundles)}
MaxVisitedEnd ==
    IF VisitedEnds = {} THEN U64(0)
    ELSE CHOOSE m \in VisitedEnds : \A e \in VisitedEnds : ~Less64(m, e)

\* C26: for an image that begins with the offload-bundle magic the size
\* computed is the maximum of offset + size over the first min(count, 16)
\* entries of the table, each found 24 bytes plus its triple length after
\* the one before.
C26_BundleSizeIsMaxEnd ==
    Loaded("bundle") => load.approx_size = MaxVisitedEnd

\* C26 witness: a table of 17 entries with triples of 16 bytes whose second
\* entry ends last has been measured; the seventeenth was not visited.
C26_Witness ==
    /\ Loaded("bundle")
    /\ image.num_bundles = MaxBundles + 1
    /\ image.entries[1].triple_len = 16
    /\ load.approx_size = Add64(image.entries[2].offset, image.entries[2].size)
    /\ load.approx_size = U64(4096 + 8192)

\* C27: the number of bytes uploaded and declared in data_size is at least
\* 64 and at most 64 MiB for every image, and it is the 16 MiB fallback when
\* the image has neither magic or the size computed is below 64 or above
\* 64 MiB.
C27_UploadedSizeBounded ==
    (load.ncalls > 0 /\ ~load.null) =>
       /\ load.uploaded = load.data_size
       /\ load.uploaded >= 64
       /\ load.uploaded <= HIP_REMOTE_MAX_PAYLOAD_SIZE
       /\ ( \/ image.magic \notin {"elf", "bundle"}
            \/ Less64(load.approx_size, U64(64))
            \/ Less64(U64(HIP_REMOTE_MAX_PAYLOAD_SIZE), load.approx_size) )
          => load.uploaded = FallbackSize

\* C27 witness: an ELF image whose computed size wrapped far above 64 MiB
\* has been uploaded with the fallback size.
C27_Witness ==
    /\ Loaded("elf")
    /\ Less64(U64(HIP_REMOTE_MAX_PAYLOAD_SIZE), load.approx_size)
    /\ load.uploaded = FallbackSize
    /\ load.sent

(***************************************************************************)
(* Properties of the one-time initialisation                               *)
(***************************************************************************)

\* C28 (as claimed): init_from_environment has executed at most once, and
\* exactly once as soon as a call into the library has gone past the guard,
\* for any number of threads and calls.
C28_EnvironmentReadOnce ==
    /\ env_reads <= 1
    /\ (\E t \in Threads : opc.pc[t] = "return" \/ opc.calls[t] > 0) =>
          env_reads = 1

(***************************************************************************)
(* Properties of copies and of the current device                          *)
(***************************************************************************)

\* A copy by hipMemcpy that met no failure of the link, of the worker or of
\* its runtime.
CleanCopy(fn) ==
    app.fn = fn /\ ~app.ptrNull /\ app.size > 0 /\ app.clean

C30_GetDeviceIsLastSet ==
    (app.fn = "hipGetDevice" /\ app.ret = hipSuccess /\ ~app.ptrNull
        /\ app.setDev # -1) =>
       app.out = app.setDev

(***************************************************************************)
(* Properties of the endpoints, continued                                  *)
(***************************************************************************)

\* Thread t is inside hip_remote_ensure_connected, entered while the client
\* was connected.
EnsuringConnected(t) ==
    /\ call[t].kind = "ensure"
    /\ call[t].startConnected
    /\ pc[t] \in {"connect", "ens_unlock"}

\* C31: every step of hip_remote_ensure_connected entered while connected
\* leaves socket_fd, connected and next_request_id as they are, sends and
\* receives nothing, and connect_to_worker_locked returns 0 at once.
C31_EnsureConnectedIdempotent ==
    [][\A t \in Threads :
         (EnsuringConnected(t) /\ pc'[t] # pc[t]) =>
            /\ socket_fd' = socket_fd
            /\ connected' = connected
            /\ next_request_id' = next_request_id
            /\ nOpen' = nOpen
            /\ sentIds' = sentIds
            /\ awaiting' = awaiting
            /\ unread' = unread
            /\ toFrame' = toFrame
            /\ pc[t] = "connect" =>
                  (pc'[t] = "ens_unlock" /\ call'[t].ret = 0)]_vars

\* C31 witness: hip_remote_ensure_connected is about to return 0 after a
\* call made while connected, and a request has been sent before.
C31_Witness ==
    \E t \in Threads :
        /\ EnsuringConnected(t)
        /\ pc[t] = "ens_unlock"
        /\ call[t].ret = 0
        /\ connected
        /\ Len(sentIds) > 0

\* C32 (as claimed): smi_remote_init against a reachable worker whose SMI
\* subsystem is available has returned SMI_STATUS_SUCCESS and the client is
\* connected.
C32_SmiInitSucceeds ==
    (smi.fn = "smi_remote_init" /\ smi.peer = "worker" /\ smi.available) =>
       (smi.status = SMI_STATUS_SUCCESS /\ smi.connected)

\* C33 (as claimed, for the metrics client): send_request has read payload
\* bytes, their number taken from the payload_length of the header it
\* received, only when that header passes the full validation.
C33_ValidatedBeforeLengthUsed ==
    (smi.answered /\ smi.read > 0) =>
       hip_remote_validate_header(smi.header) = 0

(***************************************************************************)
(* Properties of the worker's handlers                                     *)
(***************************************************************************)
\* C34: a handler that reads a variable-length part of the payload reads it
\* only inside the payload bytes received: the furthest offset read by the
\* handler, and by the runtime through the pointers the handler formed, is
\* at most payload_size.
C34_ReadsInsidePayload ==
    hnd.op # "none" => hnd.read_end <= hnd.payload_size

\* C35: every frame a handler sends declares a payload_length that is at
\* most HIP_REMOTE_MAX_PAYLOAD_SIZE and equals the number of payload bytes
\* sent after the header.
C35_FrameDeclaresWhatIsSent ==
    hnd.op # "none" =>
        /\ ~Less64(U64(HIP_REMOTE_MAX_PAYLOAD_SIZE), hnd.declared)
        /\ hnd.declared = hnd.sent

(***************************************************************************)
(* Properties of the request primitives, continued                         *)
(***************************************************************************)
\* C36: a call of a request primitive never consumes more bytes of a
\* response than its header and the payload_length the header declares:
\* the response record and the inline data are read from within the
\* declared payload.
C36_ConsumesWithinDeclared ==
    \A t \in Threads :
        call[t].consumed <= HeaderSize + call[t].resp_header.payload_length

\* C37: a request primitive is about to return hipSuccess only when at
\* least four payload bytes were declared by the response header and stored
\* in the caller's response record, and the error code read there is zero.
C37_SuccessNeedsWholeCode ==
    \A t \in Threads :
        LET c == call[t] IN
        (pc[t] = "done" /\ c.kind \in {"request", "with_data", "receive_data"}
            /\ c.result = hipSuccess) =>
            /\ c.resp_header.payload_length >= ResponseHeaderSize
            /\ c.respWritten >= ResponseHeaderSize
            /\ c.code = hipSuccess

\* C39: every step of a thread that changes the shared connection state
\* (socket_fd, connected, next_request_id, last_error) is taken while that
\* thread holds the mutex.
C39_SharedStateUnderLock ==
    [][\A t \in Threads :
          (/\ pc'[t] # pc[t]
           /\ <<socket_fd, connected, next_request_id, last_error>>'
                  # <<socket_fd, connected, next_request_id, last_error>>)
          => lock = t]_vars

C40_LoadFrameAccepted ==
    load.sent =>
        hip_remote_validate_header(
            hip_remote_init_header(HIP_OP_MODULE_LOAD_DATA, 1,
                                   load.payload_length)) = 0

====
